---- MODULE Spec2Model ----
(***************************************************************************)
(* A model of grimlock's Soy generator: SoyConverter (soy-generator.ts),   *)
(* the Soy output AST with its emit() methods (soy-ast), and the           *)
(* module-level registry litTemplateDeclarations that outlives a           *)
(* converter.                                                              *)
(*                                                                         *)
(* The TypeScript program handed to the converter is data: every node of   *)
(* the source AST is a record, and what the type checker answers about a   *)
(* node (its symbol's declaration, its type) is stored in the node.  The   *)
(* fragment that parse5 returns for a template is stored with the template *)
(* (text values already split at the marker).                              *)
(***************************************************************************)
EXTENDS Integers, Sequences, FiniteSets

(***************************************************************************)
(* Soy output AST: constructors                                            *)
(***************************************************************************)
\* `undefined` where the code has a string: it prints as "undefined" in a
\* JavaScript template string.
Undefined == "undefined"
\* `undefined` where the code has a node, a declaration or a type.
UndefinedNode == [undefined |-> TRUE]

Namespace(value) == [c |-> "Namespace", value |-> value]
Template(name, commands) == [c |-> "Template", name |-> name, commands |-> commands]
TemplateParameter(name, type) == [c |-> "TemplateParameter", name |-> name, type |-> type]
RawText(value) == [c |-> "RawText", value |-> value]
SoyPrint(child) == [c |-> "Print", child |-> child]
Block(children) == [c |-> "Block", children |-> children]
CallParameter(name, value, kind) ==
  [c |-> "CallParameter", name |-> name, value |-> value, kind |-> kind]
CallCommand(templateName, parameters) ==
  [c |-> "CallCommand", templateName |-> templateName, parameters |-> parameters]
IfCommand(condition, whenTrue, whenFalse) ==
  [c |-> "IfCommand", condition |-> condition, whenTrue |-> whenTrue,
   whenFalse |-> whenFalse]
ForCommand(identifier, expression, body) ==
  [c |-> "ForCommand", identifier |-> identifier, expression |-> expression,
   body |-> body]
LetCommand(identifier, value) ==
  [c |-> "LetCommand", identifier |-> identifier, value |-> value, kind |-> Undefined]
NumberLiteral(text) == [c |-> "NumberLiteral", text |-> text]
BooleanLiteral(text) == [c |-> "BooleanLiteral", text |-> text]
NullLiteral == [c |-> "NullLiteral", text |-> "null"]
StringLiteral(text) == [c |-> "StringLiteral", text |-> text]
Identifier(value) == [c |-> "Identifier", value |-> value]
UnaryOperator(operator, child) ==
  [c |-> "UnaryOperator", operator |-> operator, child |-> child]
BinaryOperator(operator, left, right) ==
  [c |-> "BinaryOperator", operator |-> operator, left |-> left, right |-> right]
PropertyAccess(receiver, name) ==
  [c |-> "PropertyAccess", receiver |-> receiver, name |-> name]
CallExpression(functionName, arguments) ==
  [c |-> "CallExpression", functionName |-> functionName, arguments |-> arguments]
ErrorExpression == [c |-> "ErrorExpression"]
Paren(child) == [c |-> "Paren", child |-> child]
Index(receiver, argument) ==
  [c |-> "Index", receiver |-> receiver, argument |-> argument]
Ternary(condition, trueExpr, falseExpr) ==
  [c |-> "Ternary", condition |-> condition, trueExpr |-> trueExpr,
   falseExpr |-> falseExpr]
Record(entries) == [c |-> "Record", entries |-> entries]
File(commands) == [c |-> "File", commands |-> commands]

\* `x instanceof Expression`: the classes that extend Expression.  Ternary is
\* declared without `extends`.
ExpressionClasses ==
  {"NumberLiteral", "BooleanLiteral", "NullLiteral", "StringLiteral",
   "Identifier", "UnaryOperator", "BinaryOperator", "PropertyAccess",
   "CallExpression", "ErrorExpression", "Paren", "Index", "Record"}

instanceofExpression(node) == node.c \in ExpressionClasses

(***************************************************************************)
(* Soy output AST: emit().  The result of draining a node's generator is   *)
(* either the text it yielded (ok) or the exception it raised.             *)
(***************************************************************************)
Emitted(text) == [ok |-> TRUE, text |-> text]
Raised == [ok |-> FALSE, text |-> ""]

\* text yielded so far, followed by what the next generator yields
Then(a, b) == IF a.ok /\ b.ok THEN Emitted(a.text \o b.text) ELSE Raised

RECURSIVE emit(_)
RECURSIVE emitAll(_)

emitAll(nodes) ==
  IF nodes = <<>> THEN Emitted("")
  ELSE Then(emit(Head(nodes)), emitAll(Tail(nodes)))

RECURSIVE emitArguments(_)
emitArguments(args) ==
  IF args = <<>> THEN Emitted("")
  ELSE Then(emit(Head(args)),
            Then(Emitted(IF Len(args) > 1 THEN ", " ELSE ""),
                 emitArguments(Tail(args))))

RECURSIVE emitEntries(_)
emitEntries(entries) ==
  IF entries = <<>> THEN Emitted("")
  ELSE Then(Emitted(Head(entries)[1] \o ": "),
            Then(emit(Head(entries)[2]),
                 Then(Emitted(IF Len(entries) > 1 THEN ", " ELSE ""),
                      emitEntries(Tail(entries)))))

UnaryOperatorEmit(node) == Then(Emitted(node.operator), emit(node.child))

LetCommandEmit(node) ==
  IF instanceofExpression(node.value)
  THEN Then(Emitted("\n{let $" \o node.identifier \o ": "),
            Then(emit(node.value), Emitted(" /}\n")))
  ELSE Then(Emitted("\n{let $" \o node.identifier
                    \o (IF node.kind = Undefined THEN ""
                        ELSE " kind=\"" \o node.kind \o "\"") \o "}\n"),
            Then(emit(node.value), Emitted("\n{/let}\n")))

CallParameterEmit(node) ==
  IF instanceofExpression(node.value)
  THEN Then(Emitted("{param " \o node.name \o ": "),
            Then(emit(node.value), Emitted(" /}")))
  ELSE Then(Emitted("\n{param " \o node.name
                    \o (IF node.kind = Undefined THEN ""
                        ELSE " kind=\"" \o node.kind \o "\"") \o "}"),
            Then(emit(node.value), Emitted("\n{/param}")))

\* An ErrorExpression that would serialize to nothing
SilentErrorExpressionEmit == Emitted("")
ErrorExpressionEmit == Raised

emit(node) ==
  CASE node.c = "File" -> emitAll(node.commands)
    [] node.c = "Namespace" -> Emitted("{namespace " \o node.value \o "}\n")
    [] node.c = "Template" ->
         Then(Emitted("\n{template ." \o node.name \o "}\n"),
              Then(emitAll(node.commands), Emitted("\n{/template}\n")))
    [] node.c = "TemplateParameter" ->
         Emitted("  {@param " \o node.name
                 \o (IF node.type = Undefined THEN "" ELSE ": " \o node.type)
                 \o "}\n")
    [] node.c = "RawText" -> Emitted(node.value)
    [] node.c = "Print" -> Then(Emitted("{"), Then(emit(node.child), Emitted("}")))
    [] node.c = "Block" -> emitAll(node.children)
    [] node.c = "CallParameter" -> CallParameterEmit(node)
    [] node.c = "CallCommand" ->
         Then(Emitted("{call ." \o node.templateName
                      \o (IF node.parameters /= <<>> THEN "" ELSE " /") \o "}"),
              Then(emitAll(node.parameters),
                   Emitted(IF node.parameters /= <<>> THEN "\n{/call}" ELSE "")))
    [] node.c = "IfCommand" ->
         Then(Emitted("\n{if "),
           Then(emit(node.condition),
             Then(Emitted("}\n"),
               Then(emitAll(node.whenTrue),
                 Then(Emitted("\n{else}\n"),
                   Then(emitAll(node.whenFalse), Emitted("\n{/if}\n")))))))
    [] node.c = "ForCommand" ->
         Then(Emitted("\n{for $" \o node.identifier \o " in "),
           Then(emit(node.expression),
             Then(Emitted("}\n"),
               Then(emitAll(node.body), Emitted("\n{/for}\n")))))
    [] node.c = "LetCommand" -> LetCommandEmit(node)
    [] node.c \in {"NumberLiteral", "BooleanLiteral", "NullLiteral",
                   "StringLiteral"} -> Emitted(node.text)
    [] node.c = "Identifier" -> Emitted("$" \o node.value)
    [] node.c = "UnaryOperator" -> UnaryOperatorEmit(node)
    [] node.c = "BinaryOperator" ->
         Then(emit(node.left),
              Then(Emitted(" " \o node.operator \o " "), emit(node.right)))
    [] node.c = "PropertyAccess" ->
         Then(emit(node.receiver), Emitted("." \o node.name))
    [] node.c = "CallExpression" ->
         Then(Emitted(node.functionName \o "("),
              Then(emitArguments(node.arguments), Emitted(")")))
    [] node.c = "ErrorExpression" -> ErrorExpressionEmit
    [] node.c = "Paren" -> Then(Emitted("("), Then(emit(node.child), Emitted(")")))
    [] node.c = "Index" ->
         Then(emit(node.receiver),
           Then(Emitted("["), Then(emit(node.argument), Emitted("]"))))
    [] node.c = "Ternary" ->
         Then(emit(node.condition),
           Then(Emitted(" ? "),
             Then(emit(node.trueExpr),
               Then(Emitted(" : "), emit(node.falseExpr)))))
    [] node.c = "Record" ->
         Then(Emitted("record("), Then(emitEntries(node.entries), Emitted(")")))

(***************************************************************************)
(* The TypeScript side: source nodes and the checker's answers             *)
(***************************************************************************)
\* checker.getSymbolAtLocation(...) === undefined
NoSymbol == "<no symbol>"

\* A declaration node, identified by its kind, its parent node and its name.
Declaration(dk, parent, name) == [dk |-> dk, parent |-> parent, name |-> name]

\* A ts.Type as the converter sees it.  `from`: the reference shapes that
\* isAssignableToType(type, shape) accepts; `to`: the shapes that
\* isAssignableToType(shape, type) accepts; `obj`: TypeFlags.Object; `ref`:
\* ObjectFlags.Reference; `args`: typeArguments (<<>> also when absent).
TsType(from, to, obj, ref, args) ==
  [from |-> from, to |-> to, obj |-> obj, ref |-> ref, args |-> args]

\* Source nodes.  `n` of an identifier is the number of declarations of its
\* symbol (0: no symbol, or a symbol without declarations) and `decl` the
\* first of them.
TsIdentifier(name, decl, n) == [k |-> "Identifier", name |-> name, decl |-> decl, n |-> n]
TsLiteral(k, text) == [k |-> k, text |-> text]
TsParen(expression) == [k |-> "ParenthesizedExpression", expression |-> expression]
TsBinary(left, operator, right) ==
  [k |-> "BinaryExpression", left |-> left, operator |-> operator, right |-> right]
TsPrefixUnary(operator, operand) ==
  [k |-> "PrefixUnaryExpression", operator |-> operator, operand |-> operand]
TsConditional(condition, whenTrue, whenFalse) ==
  [k |-> "ConditionalExpression", condition |-> condition, whenTrue |-> whenTrue,
   whenFalse |-> whenFalse]
TsThis == [k |-> "ThisKeyword"]
\* `member`: the declaration behind the symbol of the whole access
\* (UndefinedNode when it has no symbol); `receiverType`: the type at the
\* receiver.
TsPropertyAccess(expression, name, receiverType, member) ==
  [k |-> "PropertyAccessExpression", expression |-> expression, name |-> name,
   receiverType |-> receiverType, member |-> member]
\* `funcDeclaration`: the first declaration of the callee's symbol, named for
\* the two the converter compares it with.
TsCall(expression, arguments, funcDeclaration) ==
  [k |-> "CallExpression", expression |-> expression, arguments |-> arguments,
   funcDeclaration |-> funcDeclaration]
TsObjectLiteral(properties) == [k |-> "ObjectLiteralExpression", properties |-> properties]
TsPropertyAssignment(name, initializer) ==
  [k |-> "PropertyAssignment", name |-> name, initializer |-> initializer]
TsOther(k, text) == [k |-> k, text |-> text]
\* An arrow function; soyCompatible: whether ts.getJSDocTags finds the
\* @soyCompatible tag for it.
TsArrowFunction(id, parameters, body, soyCompatible) ==
  [k |-> "ArrowFunction", id |-> id, parameters |-> parameters, body |-> body,
   soyCompatible |-> soyCompatible]
\* A parameter: `annotated` is whether the source gives it a type annotation,
\* `symbol` whether the checker has a symbol at its name (it has none at a
\* binding pattern), `type` the checker's type of that symbol.
TsParameter(name, annotated, symbol, type) ==
  [k |-> "Parameter", name |-> name, annotated |-> annotated,
   hasSymbol |-> symbol, type |-> type]
\* A decorator: `isCall` whether its expression is a call, `symbol` the original
\* symbol of the callee, `args` the arguments of the call.
TsDecorator(isCall, symbol, args) == [isCall |-> isCall, symbol |-> symbol, args |-> args]
\* A class member; `decorators` is <<>> when it has none (node.decorators is
\* then undefined, never an empty array).
TsMember(k, name, decorators, type, body) ==
  [k |-> k, name |-> name, decorators |-> decorators, hasSymbol |-> TRUE,
   type |-> type, body |-> body]
\* A tagged template: `tag` the original symbol of the tag, `strings` what
\* lastAttributeNameRegex captures at the end of each literal chunk (UndefinedNode
\* when it does not match), `expressions` the interpolations, `fragment` the
\* child nodes parse5 returns.
TsTaggedTemplate(tag, strings, expressions, fragment) ==
  [k |-> "TaggedTemplateExpression", tag |-> tag, strings |-> strings,
   expressions |-> expressions, fragment |-> fragment]
\* parse5 nodes: a text node's value split at the marker; an element.
HtmlText(literals) == [nodeName |-> "#text", literals |-> literals]
HtmlAttr(name, literals) == [name |-> name, literals |-> literals]
HtmlElement(tagName, attrs, childNodes, endTag) ==
  [nodeName |-> tagName, tagName |-> tagName, attrs |-> attrs,
   childNodes |-> childNodes, endTag |-> endTag]
\* Statements of a block.
TsReturn(expression) == [k |-> "ReturnStatement", expression |-> expression]
TsVariableStatement(isConst, declarations) ==
  [k |-> "VariableStatement", isConst |-> isConst, declarations |-> declarations]
TsVariableDeclaration(name, initializer) ==
  [k |-> "VariableDeclaration", name |-> name, initializer |-> initializer]
TsBlock(id, statements) == [k |-> "Block", id |-> id, statements |-> statements]

RECURSIVE getText(_)
getText(node) ==
  CASE node.k = "Identifier" -> node.name
    [] node.k = "ThisKeyword" -> "this"
    [] node.k = "ParenthesizedExpression" -> "(" \o getText(node.expression) \o ")"
    [] node.k = "BinaryExpression" ->
         getText(node.left) \o " " \o node.operator \o " " \o getText(node.right)
    [] node.k = "PrefixUnaryExpression" -> node.operator \o getText(node.operand)
    [] node.k = "ConditionalExpression" ->
         getText(node.condition) \o " ? " \o getText(node.whenTrue) \o " : "
         \o getText(node.whenFalse)
    [] node.k = "PropertyAccessExpression" ->
         getText(node.expression) \o "." \o node.name
    [] node.k = "CallExpression" -> getText(node.expression) \o "(...)"
    [] node.k = "ObjectLiteralExpression" -> "{...}"
    [] node.k = "ArrowFunction" -> "(...) => ..."
    [] node.k = "TaggedTemplateExpression" -> "html(...)"
    [] OTHER -> node.text

(***************************************************************************)
(* Results of the converter's methods: the value returned, the diagnostics *)
(* this.report appended meanwhile, and whether an exception left the       *)
(* method instead of a value.                                              *)
(***************************************************************************)
Ret(e, d) == [e |-> e, d |-> d, t |-> FALSE]
Thrown(d) == [e |-> UndefinedNode, d |-> d, t |-> TRUE]

(***************************************************************************)
(* Symbols                                                                 *)
(***************************************************************************)
\* getOriginalSymbol: throws when the identifier has no symbol.
getOriginalSymbol(symbol) ==
  IF symbol = NoSymbol THEN Thrown(<<>>) ELSE Ret(symbol, <<>>)

isLitHtmlTaggedTemplate(node, env) ==
  IF ~env.html THEN Ret(FALSE, <<>>)
  ELSE IF node.k /= "TaggedTemplateExpression" THEN Ret(FALSE, <<>>)
  ELSE LET s == getOriginalSymbol(node.tag)
       IN IF s.t THEN Thrown(<<>>) ELSE Ret(s.e = "html", <<>>)

RECURSIVE isLitElementPropertyFrom(_)
isLitElementPropertyFrom(decorators) ==
  IF decorators = <<>> THEN Ret(FALSE, <<>>)
  ELSE LET decorator == Head(decorators)
       IN IF ~decorator.isCall THEN Ret(FALSE, <<>>)
          ELSE LET s == getOriginalSymbol(decorator.symbol)
               IN IF s.t THEN Thrown(<<>>)
                  ELSE IF s.e = "property" THEN Ret(TRUE, <<>>)
                  ELSE isLitElementPropertyFrom(Tail(decorators))

isLitElementProperty(node, env) ==
  IF ~env.property THEN Ret(FALSE, <<>>)
  ELSE IF node.decorators = <<>> THEN Ret(FALSE, <<>>)
  ELSE isLitElementPropertyFrom(node.decorators)

getIdentifierDeclaration(node) ==
  IF node.n = 0
  THEN Ret(UndefinedNode, <<"unknown identifier: " \o node.name>>)
  ELSE Ret(node.decl, IF node.n > 1 THEN <<"multiple declarations">> ELSE <<>>)

\* An isParameterOf that would take the parameters of every function for f's
isParameterOfAnyFunction(node, f) ==
  LET declaration == getIdentifierDeclaration(node)
  IN Ret(declaration.e /= UndefinedNode /\ declaration.e.dk = "Parameter",
         declaration.d)

isParameterOf(node, f) ==
  LET declaration == getIdentifierDeclaration(node)
  IN Ret(declaration.e /= UndefinedNode /\ declaration.e.dk = "Parameter"
         /\ declaration.e.parent = f, declaration.d)

\* A scope frame: a function (by its node id) or a Set of declarations.
FunctionFrame(f) == [set |-> FALSE, f |-> f, decls |-> {}]
SetFrame(decls) == [set |-> TRUE, f |-> "", decls |-> decls]
NoElement == "<no element>"
TemplateScope(scopes, element) == [scopes |-> scopes, element |-> element]

RECURSIVE isInScopeFrom(_, _)
isInScopeFrom(node, scopes) ==
  IF scopes = <<>> THEN Ret(FALSE, <<>>)
  ELSE LET s == Head(scopes)
           found == IF s.set
                    THEN LET declaration == getIdentifierDeclaration(node)
                         IN Ret(declaration.e /= UndefinedNode
                                /\ declaration.e \in s.decls, declaration.d)
                    ELSE isParameterOf(node, s.f)
       IN IF found.e THEN found
          ELSE LET rest == isInScopeFrom(node, Tail(scopes))
               IN Ret(rest.e, found.d \o rest.d)

isInScope(node, scope) == isInScopeFrom(node, scope.scopes)

(***************************************************************************)
(* Types                                                                   *)
(***************************************************************************)
RECURSIVE getSoyType(_)
getSoyType(type) ==
  IF "boolean" \in type.from THEN Ret("bool", <<>>)
  ELSE IF "number" \in type.from THEN Ret("number", <<>>)
  ELSE IF "string" \in type.from THEN Ret("string", <<>>)
  ELSE IF "nullish" \in type.from THEN Ret("null", <<>>)
  ELSE IF "array" \in type.from
  THEN IF ~type.obj THEN Thrown(<<>>)
       ELSE IF ~type.ref THEN Thrown(<<>>)
       ELSE IF type.args = <<>> THEN Ret("list", <<>>)
       ELSE IF Len(type.args) = 1
       THEN LET inner == getSoyType(type.args[1])
            IN IF inner.t THEN Thrown(<<>>)
               ELSE Ret("list<" \o inner.e \o ">", <<>>)
       ELSE Ret(Undefined, <<>>)
  ELSE Ret(Undefined, <<>>)

\* `hasSymbol`: whether the checker has a symbol at the declaration's name.
getSoyTypeOfNode(node) ==
  LET return(soyType) ==
        IF soyType.t THEN Thrown(<<>>)
        ELSE Ret(soyType.e,
                 IF soyType.e = Undefined THEN <<"unknown type">> ELSE <<>>)
  IN IF ~node.hasSymbol THEN Ret(Undefined, <<"unknown type">>)
     ELSE return(getSoyType(node.type))

(***************************************************************************)
(* Operators                                                               *)
(***************************************************************************)
\* A getSoyBinaryOperator that would take the strict operators for the loose
\* ones
getSoyBinaryOperatorLoose(operator) ==
  CASE operator = "&&" -> Ret("and", <<>>)
    [] operator = "||" -> Ret("or", <<>>)
    [] operator \in {"+", "-", "*", "/", "%", ">", "<", ">=", "<=", "==", "!="} ->
         Ret(operator, <<>>)
    [] operator = "===" -> Ret("==", <<>>)
    [] operator = "!==" -> Ret("!=", <<>>)
    [] OTHER -> Ret(Undefined, <<"unsupported operator">>)

getSoyBinaryOperator(operator) ==
  CASE operator = "&&" -> Ret("and", <<>>)
    [] operator = "||" -> Ret("or", <<>>)
    [] operator \in {"+", "-", "*", "/", "%", ">", "<", ">=", "<=", "==", "!="} ->
         Ret(operator, <<>>)
    [] operator = "===" -> Ret(Undefined, <<"=== is disallowed. Use ==">>)
    [] operator = "!==" -> Ret(Undefined, <<"!== is disallowed. Use !=">>)
    [] OTHER -> Ret(Undefined, <<"unsupported operator">>)

getSoyUnaryOperator(operator) ==
  CASE operator = "!" -> Ret("not", <<>>)
    [] operator = "-" -> Ret("-", <<>>)
    [] OTHER -> Ret(Undefined, <<"unsupported operator">>)

(***************************************************************************)
(* convertExpression and the methods it dispatches to                      *)
(***************************************************************************)
\* The value of a method that ran `first` and then went on with `rest`, a
\* result computed from first's value: first's diagnostics come first, and an
\* exception in `first` is the method's.
Seq2(first, rest) ==
  IF first.t THEN Thrown(first.d)
  ELSE [e |-> rest.e, d |-> first.d \o rest.d, t |-> rest.t]

RECURSIVE convertExpression(_, _, _)
RECURSIVE convertEntries(_, _, _)

convertPrefixUnaryExpression(node, scope, env) ==
  LET soyOperator == getSoyUnaryOperator(node.operator)
  IN IF soyOperator.e /= Undefined
     THEN LET child == convertExpression(node.operand, scope, env)
          IN Seq2(soyOperator,
                  [child EXCEPT !.e = UnaryOperator(soyOperator.e, child.e)])
     ELSE Ret(ErrorExpression, soyOperator.d)

convertConditionalExpression(node, scope, env) ==
  LET condition == convertExpression(node.condition, scope, env)
      whenTrue == convertExpression(node.whenTrue, scope, env)
      whenFalse == convertExpression(node.whenFalse, scope, env)
  IN Seq2(condition, Seq2(whenTrue,
       [whenFalse EXCEPT !.e = Ternary(condition.e, whenTrue.e, whenFalse.e)]))

convertBinaryExpression(node, scope, env) ==
  LET soyOperator == getSoyBinaryOperator(node.operator)
  IN IF soyOperator.e /= Undefined
     THEN LET left == convertExpression(node.left, scope, env)
              right == convertExpression(node.right, scope, env)
          IN Seq2(soyOperator, Seq2(left,
               [right EXCEPT !.e = BinaryOperator(soyOperator.e, left.e, right.e)]))
     ELSE Ret(ErrorExpression, soyOperator.d)

convertCallExpression(node, scope, env) ==
  IF node.funcDeclaration = "String.includes"
  THEN IF node.expression.k /= "PropertyAccessExpression"
       THEN Ret(ErrorExpression, <<"String#includes must be called as a method">>)
       ELSE IF Len(node.arguments) /= 1
       THEN Ret(ErrorExpression,
                <<"only one argument is allowed to String#includes()">>)
       ELSE LET receiver == convertExpression(node.expression.expression, scope, env)
                arg == convertExpression(node.arguments[1], scope, env)
            IN Seq2(receiver,
                 [arg EXCEPT !.e = CallExpression("strContains",
                                                   <<receiver.e, arg.e>>)])
  ELSE Ret(ErrorExpression, <<"unsupported call">>)

convertEntries(properties, scope, env) ==
  IF properties = <<>> THEN Ret(<<>>, <<>>)
  ELSE LET p == Head(properties)
           entry == IF p.k = "PropertyAssignment"
                    THEN LET value == convertExpression(p.initializer, scope, env)
                         IN [value EXCEPT !.e = <<p.name, value.e>>]
                    ELSE Ret(<<"", ErrorExpression>>,
                             <<"unsupported object literal member">>)
           rest == convertEntries(Tail(properties), scope, env)
       IN Seq2(entry, [rest EXCEPT !.e = <<entry.e>> \o rest.e])

convertObjectLiteralExpression(node, scope, env) ==
  LET entries == convertEntries(node.properties, scope, env)
  IN [entries EXCEPT !.e = Record(entries.e)]

convertPropertyAccessExpression(node, scope, env) ==
  LET receiver == node.expression
  IN IF receiver.k = "ThisKeyword"
     THEN IF scope.element = NoElement
          THEN Ret(ErrorExpression, <<"this keyword outside of a LitElement">>)
          ELSE IF node.member = UndefinedNode
          THEN Ret(ErrorExpression, <<"unknown class property">>)
          ELSE LET isProperty == isLitElementProperty(node.member, env)
               IN IF isProperty.t THEN Thrown(<<>>)
                  ELSE IF ~isProperty.e
                  THEN Ret(ErrorExpression,
                      <<"referenced properties must be annotated with @property()">>)
                  ELSE Ret(Identifier(node.member.name), <<>>)
     ELSE LET receiverType == node.receiverType
              isLength == receiverType /= UndefinedNode /\ node.name = "length"
              unknown == IF receiverType = UndefinedNode
                         THEN <<"unknown receiver type">> ELSE <<>>
              r == convertExpression(receiver, scope, env)
          IN IF isLength /\ "string" \in receiverType.to
             THEN [r EXCEPT !.e = CallExpression("strLen", <<r.e>>)]
             ELSE IF isLength /\ "array" \in receiverType.to
             THEN [r EXCEPT !.e = CallExpression("length", <<r.e>>)]
             ELSE Seq2(Ret(Undefined, unknown),
                       [r EXCEPT !.e = PropertyAccess(r.e, node.name)])

convertExpression(node, scope, env) ==
  LET unsupported == <<"unsupported expression: " \o getText(node)>>
  IN CASE node.k = "ParenthesizedExpression" ->
            LET r == convertExpression(node.expression, scope, env)
            IN [r EXCEPT !.e = Paren(r.e)]
       [] node.k = "Identifier" ->
            LET inScope == isInScope(node, scope)
            IN IF inScope.e THEN Ret(Identifier(getText(node)), inScope.d)
               ELSE Ret(ErrorExpression,
                        inScope.d \o <<"identifier references non-local parameter">>
                        \o unsupported)
       [] node.k = "StringLiteral" -> Ret(StringLiteral(getText(node)), <<>>)
       [] node.k = "NumericLiteral" -> Ret(NumberLiteral(getText(node)), <<>>)
       [] node.k \in {"TrueKeyword", "FalseKeyword"} ->
            Ret(BooleanLiteral(getText(node)), <<>>)
       [] node.k \in {"NullKeyword", "UndefinedKeyword"} -> Ret(NullLiteral, <<>>)
       [] node.k = "ObjectLiteralExpression" ->
            convertObjectLiteralExpression(node, scope, env)
       [] node.k = "TaggedTemplateExpression" ->
            Ret(ErrorExpression, <<"template are not supported here">> \o unsupported)
       [] node.k = "CallExpression" -> convertCallExpression(node, scope, env)
       [] node.k = "BinaryExpression" -> convertBinaryExpression(node, scope, env)
       [] node.k = "ConditionalExpression" ->
            convertConditionalExpression(node, scope, env)
       [] node.k = "PrefixUnaryExpression" ->
            convertPrefixUnaryExpression(node, scope, env)
       [] node.k = "PropertyAccessExpression" ->
            convertPropertyAccessExpression(node, scope, env)
       [] OTHER -> Ret(ErrorExpression, unsupported)

(***************************************************************************)
(* Reflected attributes                                                    *)
(***************************************************************************)
Reflection(propertyName, attributeName, isBoolean) ==
  [propertyName |-> propertyName, attributeName |-> attributeName,
   isBoolean |-> isBoolean]

reflectedAttributesSource ==
  << [tagNames |-> <<"input", "option">>,
      reflections |-> <<Reflection("value", "value", FALSE)>>],
     [tagNames |-> <<"input">>,
      reflections |-> <<Reflection("checked", "checked", TRUE),
                        Reflection("disabled", "disabled", TRUE),
                        Reflection("indeterminate", "indeterminate", TRUE)>>],
     [tagNames |-> <<"*">>,
      reflections |-> <<Reflection("className", "class", FALSE),
                        Reflection("id", "id", FALSE)>>] >>

Range(seq) == {seq[i] : i \in DOMAIN seq}

\* reflectedAttributes.get(elementName): the reflections added for the tag,
\* the later entry of a property replacing the earlier.
reflectedAttributesGet(elementName) ==
  LET added == [i \in DOMAIN reflectedAttributesSource |->
                  IF elementName \in Range(reflectedAttributesSource[i].tagNames)
                  THEN reflectedAttributesSource[i].reflections ELSE <<>>]
      pairs == {<<i, j>> \in (DOMAIN reflectedAttributesSource) \X (1..8) :
                  j \in DOMAIN added[i]}
      later(a, b) == a[1] < b[1] \/ (a[1] = b[1] /\ a[2] < b[2])
  IN {added[q[1]][q[2]] : q \in
        {q \in pairs : ~\E r \in pairs :
            later(q, r)
            /\ added[r[1]][r[2]].propertyName = added[q[1]][q[2]].propertyName}}

\* A lookup that knows the tag's own reflections only.
getReflectedAttributeOfTagOnly(propertyName, tagName) ==
  LET own == {r \in reflectedAttributesGet(tagName) : r.propertyName = propertyName}
  IN IF own = {} THEN UndefinedNode
     ELSE LET reflection == CHOOSE r \in own : TRUE
          IN [name |-> reflection.attributeName, isBoolean |-> reflection.isBoolean]

getReflectedAttribute(propertyName, tagName) ==
  LET attributes == reflectedAttributesGet(tagName)
      own == {r \in attributes : r.propertyName = propertyName}
      any == {r \in reflectedAttributesGet("*") : r.propertyName = propertyName}
      found == IF own /= {} THEN own ELSE any
  IN IF found = {} THEN UndefinedNode
     ELSE LET reflection == CHOOSE r \in found : TRUE
          IN [name |-> reflection.attributeName, isBoolean |-> reflection.isBoolean]

(***************************************************************************)
(* Templates: text-position expressions, function bodies, markup           *)
(***************************************************************************)
\* checker.getSymbolAtLocation(node) !== undefined, for an expression node
hasSymbol(node) ==
  CASE node.k = "Identifier" -> node.n > 0
    [] node.k = "PropertyAccessExpression" -> node.member /= UndefinedNode
    [] OTHER -> FALSE

convertListenerExpression(node, eventType) ==
  IF ~hasSymbol(node) THEN Ret(UndefinedNode, <<"unknown class method">>)
  ELSE IF ~(node.k = "PropertyAccessExpression" /\ node.expression.k = "ThisKeyword")
  THEN Ret(UndefinedNode,
           <<"event bindings must be instance method references: " \o getText(node)>>)
  ELSE Ret(RawText(" jsaction=\"" \o eventType \o ":{xid('" \o node.member.name
                   \o "')}\""), <<>>)

\* The state of one traversal of a template's fragment.  `arrays` holds the
\* command arrays this traversal created (1 is commandStack[0]);
\* commandStack and commands refer to them by index, as the code's variables
\* refer to the array objects.  A children Block under construction is
\* [c |-> "Block", array |-> index].
Traversal(arrays, commandStack, commands, partTypes, d, t) ==
  [arrays |-> arrays, commandStack |-> commandStack, commands |-> commands,
   partTypes |-> partTypes, d |-> d, t |-> t]

\* commands.push(...cs)
Push(st, cs) == [st EXCEPT !.arrays[st.commands] = @ \o cs]
Report(st, messages) == [st EXCEPT !.d = @ \o messages]
Raise(st) == [st EXCEPT !.t = TRUE]

\* The tree that the arrays of a finished traversal describe.
RECURSIVE resolveAll(_, _)
resolve(arrays, command) ==
  IF command.c = "CallCommand"
  THEN [command EXCEPT !.parameters =
          [i \in DOMAIN command.parameters |->
             IF command.parameters[i].value.c = "Block"
             THEN [command.parameters[i] EXCEPT !.value =
                     Block(resolveAll(arrays, arrays[@.array]))]
             ELSE command.parameters[i]]]
  ELSE command
resolveAll(arrays, cs) == [i \in DOMAIN cs |-> resolve(arrays, cs[i])]

RECURSIVE convertTextExpression(_, _, _)
RECURSIVE convertLitTemplateFunctionBody(_, _, _)
RECURSIVE convertLitTaggedTemplateExpression(_, _, _)
RECURSIVE convertStatements(_, _, _, _)
RECURSIVE textLiteralsLoop(_, _, _, _, _)
RECURSIVE attributeLiteralsLoop(_, _, _, _, _)
RECURSIVE attrsLoop(_, _, _, _, _, _)
RECURSIVE visit(_, _, _, _, _)
RECURSIVE visitAll(_, _, _, _, _)

convertAttributeExpression(node, scope, env) ==
  LET print(r) == [r EXCEPT !.e = SoyPrint(r.e)]
  IN print(convertExpression(node, scope, env))

\* for (const textLiteral of textLiterals.slice(1)) in a text node
textLiteralsLoop(literals, st, templateLiteral, scope, env) ==
  LET index == Len(st.partTypes) + 1
      push(r) ==
        IF r.t THEN Raise(Report(st, r.d))
        ELSE textLiteralsLoop(Tail(literals),
               [Push(Report(st, r.d), r.e \o <<RawText(Head(literals))>>)
                  EXCEPT !.partTypes = Append(@, "text")],
               templateLiteral, scope, env)
  IN IF literals = <<>> \/ st.t THEN st
     ELSE IF index > Len(templateLiteral.expressions) THEN Raise(st)
     ELSE push(convertTextExpression(templateLiteral.expressions[index], scope, env))

\* for (const textLiteral of textLiterals.slice(1)) in an attribute value
attributeLiteralsLoop(literals, st, templateLiteral, scope, env) ==
  LET index == Len(st.partTypes) + 1
      push(r) ==
        IF r.t THEN Raise(Report(st, r.d))
        ELSE attributeLiteralsLoop(Tail(literals),
               [Push(Report(st, r.d), <<r.e, RawText(Head(literals))>>)
                  EXCEPT !.partTypes = Append(@, "attribute")],
               templateLiteral, scope, env)
  IN IF literals = <<>> \/ st.t THEN st
     ELSE IF index > Len(templateLiteral.expressions) THEN Raise(st)
     ELSE push(convertAttributeExpression(templateLiteral.expressions[index],
                                          scope, env))

\* partTypes.push(...Array(n).fill('attribute'))
FillAttribute(n) == [i \in 1..n |-> "attribute"]

\* The end of the body of `for (let {name, value} of node.attrs)`: the
\* attribute `name` with the value of attr, after the binding prefixes.
convertAttributeValue(name, isBoolean, attr, st, templateLiteral, scope, env) ==
  LET index == Len(st.partTypes) + 1
      textLiterals == attr.literals
      isBound == Len(textLiterals) > 1
      containsMultipleBindings == Len(textLiterals) > 2
      containsOtherText == \E i \in DOMAIN textLiterals : textLiterals[i] /= ""
      boolean(booleanExpression) ==
        IF booleanExpression.t THEN Raise(Report(st, booleanExpression.d))
        ELSE [Push(Report(st, booleanExpression.d),
                   <<RawText(" "),
                     IfCommand(booleanExpression.e, <<RawText(name)>>, <<>>)>>)
                EXCEPT !.partTypes = Append(@, "attribute")]
      close(st2) == IF st2.t THEN st2 ELSE Push(st2, <<RawText("\"")>>)
  IN IF ~isBound
     THEN Push(st, <<RawText(" " \o name \o "=\"" \o textLiterals[1] \o "\"")>>)
     ELSE IF isBoolean
     THEN IF containsMultipleBindings \/ containsOtherText
          THEN [Report(st, <<"boolean attribute " \o name
                             \o " must only contain a single expression.">>)
                  EXCEPT !.partTypes = @ \o FillAttribute(Len(textLiterals) - 1)]
          ELSE IF index > Len(templateLiteral.expressions) THEN Raise(st)
          ELSE boolean(convertExpression(templateLiteral.expressions[index],
                                         scope, env))
     ELSE close(attributeLiteralsLoop(Tail(textLiterals),
                  Push(st, <<RawText(" " \o name \o "=\""),
                             RawText(textLiterals[1])>>),
                  templateLiteral, scope, env))

\* One attribute of an element: the body of `for (let {name, value} of
\* node.attrs)`.  An attribute name is [first, rest]: its first character and
\* what follows it.
convertAttribute(attr, node, st, templateLiteral, scope, env) ==
  LET index == Len(st.partTypes) + 1
      isProperty == attr.name.first = "."
      \* lastAttributeNameRegex.exec(strings[partTypes.length]) is null
      noMatch == \/ index > Len(templateLiteral.strings)
                 \/ templateLiteral.strings[index] = UndefinedNode
      reflectedAttribute ==
        getReflectedAttribute(templateLiteral.strings[index].rest, node.tagName)
      listen(listenerCommand) ==
        IF listenerCommand.e /= UndefinedNode
        THEN Push([Report(st, listenerCommand.d)
                     EXCEPT !.partTypes = Append(@, "attribute")],
                  <<listenerCommand.e>>)
        ELSE [Report(st, listenerCommand.d)
                EXCEPT !.partTypes = Append(@, "attribute")]
  IN IF isProperty /\ noMatch THEN Raise(st)
     ELSE IF isProperty /\ reflectedAttribute = UndefinedNode
     THEN [st EXCEPT !.partTypes = Append(@, "attribute")]
     ELSE IF attr.name.first = "@"
     THEN IF index > Len(templateLiteral.expressions) THEN Raise(st)
          ELSE listen(convertListenerExpression(templateLiteral.expressions[index],
                                                attr.name.rest))
     ELSE IF attr.name.first = "?"
     THEN [Report(st, <<"unsupported binding type: " \o attr.name.first>>)
             EXCEPT !.partTypes = Append(@, "attribute")]
     ELSE convertAttributeValue(
            IF isProperty THEN reflectedAttribute.name
            ELSE attr.name.first \o attr.name.rest,
            isProperty /\ reflectedAttribute.isBoolean,
            attr, st, templateLiteral, scope, env)

attrsLoop(attrs, node, st, templateLiteral, scope, env) ==
  IF attrs = <<>> \/ st.t THEN st
  ELSE attrsLoop(Tail(attrs), node,
                 convertAttribute(Head(attrs), node, st, templateLiteral, scope, env),
                 templateLiteral, scope, env)

isTextNode(node) == node.nodeName = "#text"
isElementNode(node) == "tagName" \in DOMAIN node

\* traverseHtml's `pre` callback
pre(node, st, templateLiteral, scope, env) ==
  LET isDefined == node.tagName \in DOMAIN env.definedElements
      childrenCommands == Len(st.arrays) + 1
      childrenParameter ==
        CallParameter("children", [c |-> "Block", array |-> childrenCommands], "html")
      open == IF isDefined
              THEN [Push(st, <<CallCommand(env.definedElements[node.tagName],
                                           <<childrenParameter>>)>>)
                      EXCEPT !.arrays = Append(@, <<>>),
                             !.commandStack = Append(@, st.commands),
                             !.commands = childrenCommands]
              ELSE Push(st, <<RawText("<" \o node.tagName)>>)
      close(st2) == IF st2.t \/ isDefined THEN st2 ELSE Push(st2, <<RawText(">")>>)
  IN IF isTextNode(node)
     THEN textLiteralsLoop(Tail(node.literals),
                           Push(st, <<RawText(node.literals[1])>>),
                           templateLiteral, scope, env)
     ELSE IF isElementNode(node)
     THEN close(attrsLoop(node.attrs, node, open, templateLiteral, scope, env))
     ELSE st

\* traverseHtml's `post` callback; an exception raised before it passes through
post(node, st, env) ==
  IF st.t THEN st
  ELSE IF isElementNode(node)
  THEN IF node.tagName \in DOMAIN env.definedElements
       THEN LET popped == SubSeq(st.commandStack, 1, Len(st.commandStack) - 1)
            IN [st EXCEPT !.commandStack = popped,
                          !.commands = popped[Len(popped)]]
       ELSE IF node.endTag
       THEN Push(st, <<RawText("</" \o node.tagName \o ">")>>)
       ELSE st
  ELSE st

\* parse5-traverse: pre, the child nodes in document order, post
visit(node, st, templateLiteral, scope, env) ==
  post(node,
       visitAll(IF isElementNode(node) THEN node.childNodes ELSE <<>>,
                pre(node, st, templateLiteral, scope, env),
                templateLiteral, scope, env),
       env)

visitAll(nodes, st, templateLiteral, scope, env) ==
  IF nodes = <<>> \/ st.t THEN st
  ELSE visitAll(Tail(nodes), visit(Head(nodes), st, templateLiteral, scope, env),
                templateLiteral, scope, env)

convertLitTaggedTemplateExpression(templateLiteral, scope, env) ==
  LET return(st) ==
        IF st.t THEN Thrown(st.d)
        ELSE Ret(resolveAll(st.arrays, st.arrays[st.commandStack[1]]), st.d)
  IN return(visitAll(templateLiteral.fragment,
                     Traversal(<< <<>> >>, <<1>>, 1, <<>>, <<>>, FALSE),
                     templateLiteral, scope, env))

convertTextExpression(node, scope, env) ==
  LET isCall == node.k = "CallExpression"
      isMap == isCall /\ node.funcDeclaration = "Array.map"
      \* the callee of a call that is not Array.map is an identifier
      isNamed == isCall /\ ~isMap /\ node.expression.k = "Identifier"
      declaration == getIdentifierDeclaration(node.expression)
      isRegistered == /\ isNamed
                      /\ declaration.e /= UndefinedNode
                      /\ declaration.e.dk = "VariableDeclaration"
                      /\ declaration.e \in env.litTemplateDeclarations
      isLit == isLitHtmlTaggedTemplate(node, env)
      if(condition, whenTrue, whenFalse) ==
        Seq2(condition, Seq2(whenTrue,
          [whenFalse EXCEPT !.e = <<IfCommand(condition.e, whenTrue.e,
                                              whenFalse.e)>>]))
      for(loopExpr, template) ==
        Seq2(loopExpr,
          [template EXCEPT !.e = <<ForCommand(node.arguments[1].parameters[1].name,
                                              loopExpr.e, template.e)>>])
      print(r) ==
        Seq2(Ret(Undefined, IF isNamed THEN declaration.d ELSE <<>>),
             [r EXCEPT !.e = <<SoyPrint(r.e)>>])
  IN IF node.k = "TaggedTemplateExpression"
     THEN IF isLit.t THEN Thrown(<<>>)
          ELSE IF isLit.e THEN convertLitTaggedTemplateExpression(node, scope, env)
          ELSE Ret(<<>>, <<"template tags must be named imports from the modules"
                            \o " \"lit-html\" or \"lit-element\"">>)
     ELSE IF node.k = "ConditionalExpression"
     THEN if(convertExpression(node.condition, scope, env),
             convertTextExpression(node.whenTrue, scope, env),
             convertTextExpression(node.whenFalse, scope, env))
     ELSE IF isMap
     THEN IF node.expression.k /= "PropertyAccessExpression"
          THEN Ret(<<ErrorExpression>>, <<"Array#map must be called as a method">>)
          ELSE IF Len(node.arguments) /= 1
          THEN Ret(<<ErrorExpression>>,
                   <<"only one argument is allowed to Array#map()">>)
          ELSE IF node.arguments[1].k /= "ArrowFunction"
          THEN Ret(<<ErrorExpression>>,
                   <<"Array#map must be passed an arrow function">>)
          \* mapper.parameters[0].name of a mapper without parameters
          ELSE IF node.arguments[1].parameters = <<>> THEN Thrown(<<>>)
          ELSE for(convertExpression(node.expression.expression, scope, env),
                   convertLitTemplateFunctionBody(
                     node.arguments[1].body,
                     [scope EXCEPT !.scopes =
                        <<FunctionFrame(node.arguments[1].id)>> \o @],
                     env))
     ELSE IF isRegistered
     THEN Ret(<<CallCommand(getText(node.expression), <<>>)>>, declaration.d)
     ELSE print(convertExpression(node, scope, env))

convertReturnStatement(node, scope, env) ==
  IF node.expression = UndefinedNode
  THEN Ret(<<>>, <<"litTemplates must return a TemplateResult">>)
  ELSE LET isLit == isLitHtmlTaggedTemplate(node.expression, env)
       IN IF isLit.t THEN Thrown(<<>>)
          ELSE IF ~isLit.e
          THEN Ret(<<>>, <<"litTemplates must return a TemplateResult">>)
          ELSE convertLitTaggedTemplateExpression(node.expression, scope, env)

\* The locals of convertLitTemplateFunctionBody while it loops over the
\* statements of a block.
BodyFrame(commands, scope, hasReturn, d, t) ==
  [commands |-> commands, scope |-> scope, hasReturn |-> hasReturn, d |-> d, t |-> t]

\* for (const declaration of statement.declarationList.declarations)
RECURSIVE convertDeclarations(_, _, _, _)
\* A loop that would put the frame of a declaration behind the frames of the
\* scope
convertDeclarationsAppending(declarations, parent, frame, env) ==
  LET declaration == Head(declarations)
      let(initializer) ==
        IF initializer.t
        THEN [frame EXCEPT !.d = @ \o initializer.d, !.t = TRUE]
        ELSE convertDeclarations(Tail(declarations), parent,
               [frame EXCEPT
                  !.d = @ \o initializer.d,
                  !.scope.scopes =
                     Append(@, SetFrame({Declaration("VariableDeclaration", parent,
                                                     declaration.name)})),
                  !.commands = Append(@, LetCommand(declaration.name,
                                                     initializer.e))],
               env)
  IN IF declarations = <<>> \/ frame.t THEN frame
     ELSE let(convertExpression(declaration.initializer, frame.scope, env))

convertDeclarations(declarations, parent, frame, env) ==
  LET declaration == Head(declarations)
      let(initializer) ==
        IF initializer.t
        THEN [frame EXCEPT !.d = @ \o initializer.d, !.t = TRUE]
        ELSE convertDeclarations(Tail(declarations), parent,
               [frame EXCEPT
                  !.d = @ \o initializer.d,
                  !.scope.scopes =
                     <<SetFrame({Declaration("VariableDeclaration", parent,
                                             declaration.name)})>> \o @,
                  !.commands = Append(@, LetCommand(declaration.name,
                                                     initializer.e))],
               env)
  IN IF declarations = <<>> \/ frame.t THEN frame
     ELSE let(convertExpression(declaration.initializer, frame.scope, env))

\* One iteration of `for (const statement of node.statements)`; `block` is the
\* id of the block node.
convertStatement(statement, block, frame, env) ==
  LET return(r) ==
        [frame EXCEPT !.hasReturn = TRUE, !.d = @ \o r.d, !.t = r.t,
                      !.commands = IF r.t THEN @ ELSE @ \o r.e]
  IN IF statement.k = "ReturnStatement"
     THEN return(convertReturnStatement(statement, frame.scope, env))
     ELSE IF statement.k = "VariableStatement"
     THEN IF ~statement.isConst
          THEN [frame EXCEPT !.d = @ \o <<"non-const variable declaration">>,
                             !.commands = Append(@, ErrorExpression)]
          ELSE convertDeclarations(statement.declarations, block, frame, env)
     ELSE [frame EXCEPT !.d = @ \o <<"unsupported statement">>]

convertStatements(statements, block, frame, env) ==
  IF statements = <<>> \/ frame.t THEN frame
  ELSE convertStatements(Tail(statements), block,
                         convertStatement(Head(statements), block, frame, env), env)

\* A block branch that would not look at hasReturn
finishBlockUnchecked(frame) ==
  IF frame.t THEN Thrown(frame.d) ELSE Ret(frame.commands, frame.d)

\* The end of the block branch: `if (!hasReturn) report(...)`; return commands
finishBlock(frame) ==
  IF frame.t THEN Thrown(frame.d)
  ELSE Ret(frame.commands,
           frame.d \o (IF ~frame.hasReturn
                       THEN <<"litTemplates must return a TemplateResult">>
                       ELSE <<>>))

convertLitTemplateFunctionBody(node, scope, env) ==
  IF node.k = "Block"
  THEN finishBlock(convertStatements(node.statements, node.id,
                                     BodyFrame(<<>>, scope, FALSE, <<>>, FALSE), env))
  ELSE LET isLit == isLitHtmlTaggedTemplate(node, env)
       IN IF isLit.t THEN Thrown(<<>>)
          ELSE IF ~isLit.e
          THEN Ret(<<>>, <<"litTemplates must return a TemplateResult">>)
          ELSE convertLitTaggedTemplateExpression(node, scope, env)

(***************************************************************************)
(* Top-level declarations                                                  *)
(***************************************************************************)
\* A top-level `const name = initializer, ...;`.  soyCompatible: whether
\* ts.getJSDocTags finds the @soyCompatible tag for the node.
TsTopVariableStatement(soyCompatible, declarations) ==
  [k |-> "VariableStatement", soyCompatible |-> soyCompatible,
   declarations |-> declarations]
\* A class.  `name` is Undefined for an unnamed class; heritageClauses says
\* whether it has any, parentText is the text of the first parent type and
\* parent the class declaration the checker finds for it (UndefinedNode when
\* it finds none).
TsClass(soyCompatible, name, decorators, members, heritageClauses, parentText, parent) ==
  [k |-> "ClassDeclaration", soyCompatible |-> soyCompatible, name |-> name,
   decorators |-> decorators, members |-> members,
   heritageClauses |-> heritageClauses, parentText |-> parentText,
   parent |-> parent]

isSoyCompatible(node) == node.soyCompatible

isLitTemplateFunctionDeclaration(node) ==
  /\ node.k = "VariableStatement"
  /\ \E i \in DOMAIN node.declarations :
       /\ node.declarations[i].initializer /= UndefinedNode
       /\ node.declarations[i].initializer.k = "ArrowFunction"
       /\ isSoyCompatible(node)

isLitTemplateFunction(node) == node.k = "ArrowFunction" /\ isSoyCompatible(node)

isLitElement(node) == node.k = "ClassDeclaration" /\ isSoyCompatible(node)

\* The VariableDeclaration above an arrow function that is its initializer.
getVariableDeclaration(fileName, name) ==
  Declaration("VariableDeclaration", fileName, name)

getRenderMethod(node) ==
  LET found == {i \in DOMAIN node.members :
                  node.members[i].k = "MethodDeclaration"
                  /\ node.members[i].name = "render"}
  IN IF found = {} THEN UndefinedNode
     ELSE node.members[CHOOSE i \in found : \A j \in found : i <= j]

\* for (const param of node.parameters) of convertLitTemplateFunction
RECURSIVE convertParameters(_)
convertParameters(parameters) ==
  LET param == Head(parameters)
      push(type, rest) ==
        Seq2(type,
          Seq2(Ret(Undefined, IF type.e = Undefined
                              THEN <<"parameters must have a declared type">>
                              ELSE <<>>),
               [rest EXCEPT !.e = <<TemplateParameter(param.name, type.e)>> \o @]))
  IN IF parameters = <<>> THEN Ret(<<>>, <<>>)
     ELSE push(getSoyTypeOfNode(param), convertParameters(Tail(parameters)))

RECURSIVE getCustomElementNameFrom(_)
getCustomElementNameFrom(decorators) ==
  IF decorators = <<>> THEN Ret(Undefined, <<>>)
  ELSE LET decorator == Head(decorators)
       IN IF ~decorator.isCall THEN getCustomElementNameFrom(Tail(decorators))
          ELSE LET s == getOriginalSymbol(decorator.symbol)
               IN IF s.t THEN Thrown(<<>>)
                  ELSE IF s.e = "customElement"
                  THEN IF Len(decorator.args) /= 1
                       THEN Ret(Undefined,
                                <<"wrong number of arguments to customElement">>)
                       ELSE IF decorator.args[1].k /= "StringLiteral"
                       THEN Ret(Undefined,
                                <<"customElement argument must be a string literal">>)
                       ELSE Ret(decorator.args[1].text, <<>>)
                  ELSE getCustomElementNameFrom(Tail(decorators))

getCustomElementName(node, env) ==
  IF ~env.customElement THEN Ret(Undefined, <<>>)
  ELSE IF node.decorators = <<>> THEN Ret(Undefined, <<>>)
  ELSE getCustomElementNameFrom(node.decorators)

\* The member lists of the classes of getHeritage(node), concatenated; an
\* exception when the checker has no declaration for a parent.
RECURSIVE getHeritageMembers(_)
getHeritageMembers(node) ==
  IF ~node.heritageClauses THEN Ret(node.members, <<>>)
  ELSE IF node.parentText = "LitElement" THEN Ret(node.members, <<>>)
  ELSE IF node.parent = UndefinedNode THEN Thrown(<<>>)
  ELSE LET up == getHeritageMembers(node.parent)
       IN [up EXCEPT !.e = node.members \o @]

RECURSIVE filterProperties(_, _)
filterProperties(members, env) ==
  LET m == Head(members)
      filter(keep, rest) ==
        Seq2(keep, [rest EXCEPT !.e = (IF keep.e THEN <<m>> ELSE <<>>) \o @])
  IN IF members = <<>> THEN Ret(<<>>, <<>>)
     ELSE filter(IF m.k = "PropertyDeclaration" THEN isLitElementProperty(m, env)
                 ELSE Ret(FALSE, <<>>),
                 filterProperties(Tail(members), env))

getLitElementProperties(node, env) ==
  LET filter(members) ==
        IF members.t THEN Thrown(<<>>) ELSE filterProperties(members.e, env)
  IN filter(getHeritageMembers(node))

\* properties.map((p) => new ast.TemplateParameter(name, getSoyTypeOfNode(p)))
RECURSIVE propertyParams(_)
propertyParams(properties) ==
  LET p == Head(properties)
      map(type, rest) ==
        Seq2(type, [rest EXCEPT !.e = <<TemplateParameter(p.name, type.e)>> \o @])
  IN IF properties = <<>> THEN Ret(<<>>, <<>>)
     ELSE map(getSoyTypeOfNode(p), propertyParams(Tail(properties)))

\* Call parameters that would come in the reverse order of the properties
shadowCallParamsReversed(properties) ==
  [i \in DOMAIN properties |->
     CallParameter(properties[Len(properties) + 1 - i].name,
                   Identifier(properties[Len(properties) + 1 - i].name), Undefined)]

shadowCallParams(properties) ==
  [i \in DOMAIN properties |->
     CallParameter(properties[i].name, Identifier(properties[i].name), Undefined)]

\* convertLitElement after getCustomElementName and getLitElementProperties,
\* up to its return without a render method, or up to the conversion of the
\* render method's body, with convertRenderMethod's repetition of the
\* properties' parameters.  The value: the wrapper template, the render method
\* and the shadow template's parameters.
convertLitElementWith(node, tagName, properties) ==
  LET className == node.name
      render == getRenderMethod(node)
      wrapperTemplate(params) ==
        Template(className,
          <<TemplateParameter("children", "string")>> \o params
          \o <<RawText("<" \o tagName.e \o ">\n{$children}\n"),
               CallCommand(className \o "_shadow", shadowCallParams(properties.e)),
               RawText("</" \o tagName.e \o ">")>>)
      return(params, again) ==
        Seq2(params,
          IF render = UndefinedNode
          THEN Ret([wrapper |-> wrapperTemplate(params.e),
                    render |-> UndefinedNode, params |-> <<>>],
                   <<"no render method found">>)
          ELSE [again EXCEPT !.e = [wrapper |-> wrapperTemplate(params.e),
                                    render |-> render, params |-> again.e]])
  IN Seq2(tagName, Seq2(properties,
       return(propertyParams(properties.e), propertyParams(properties.e))))

convertLitElementHead(node, env) ==
  IF node.name = Undefined
  THEN Ret([wrapper |-> UndefinedNode, render |-> UndefinedNode, params |-> <<>>],
           <<"LitElement classes must be named">>)
  ELSE convertLitElementWith(node, getCustomElementName(node, env),
                             getLitElementProperties(node, env))

(***************************************************************************)
(* Source files under conversion                                           *)
(***************************************************************************)
\* A source file of the program with what the converter's constructor finds
\* for it: `html`, `property`, `customElement` say whether the export's symbol
\* is found (htmlError: why not); localPath: the segments of the file's path
\* relative to rootDir; definedElements: the converter's field of that name.
SourceFile(fileName, localPath, html, htmlError, property, customElement, definedElements, statements) ==
  [fileName |-> fileName, localPath |-> localPath, html |-> html,
   htmlError |-> htmlError, property |-> property, customElement |-> customElement,
   definedElements |-> definedElements, statements |-> statements]

\* localPath.replace(/\//g, '.')
RECURSIVE soyNamespace(_)
soyNamespace(localPath) ==
  IF Len(localPath) = 1 THEN localPath[1]
  ELSE localPath[1] \o "." \o soyNamespace(Tail(localPath))

\* The ts.Type of some declarations, as getSoyType sees them.
Types ==
  [string |-> TsType({"string"}, {"string"}, FALSE, FALSE, <<>>),
   number |-> TsType({"number"}, {"number"}, FALSE, FALSE, <<>>),
   boolean |-> TsType({"boolean"}, {"boolean"}, FALSE, FALSE, <<>>),
   \* string[]
   stringArray |-> TsType({"array"}, {"array"}, TRUE, TRUE,
                          <<TsType({"string"}, {"string"}, FALSE, FALSE, <<>>)>>),
   \* string[] | number[]: a union, not an object type
   arrayUnion |-> TsType({"array"}, {}, FALSE, FALSE, <<>>),
   \* symbol: none of the shapes is assignable to it
   symbol |-> TsType({}, {}, FALSE, FALSE, <<>>)]

\* A reference to the parameter `name` of the function f.
ParameterReference(f, name) ==
  TsIdentifier(name, Declaration("Parameter", f, name), 1)
LitHtml(strings, expressions, fragment) ==
  TsTaggedTemplate("html", strings, expressions, fragment)
\* /** @soyCompatible */ export const name = (parameters) => body;
MarkedFunction(name, parameters, body) ==
  TsTopVariableStatement(TRUE,
    <<TsVariableDeclaration(name, TsArrowFunction(name, parameters, body, TRUE))>>)
ImportHtml == TsOther("ImportDeclaration", "import {html} from 'lit-html';")
\* html(<div></div>)
DivTemplate == LitHtml(<<UndefinedNode>>, <<>>, <<HtmlElement("div", <<>>, <<>>, TRUE)>>)
\* @customElement('my-element') ... class MyElement extends LitElement {...}
MyElement(decorators, members) ==
  TsClass(TRUE, "MyElement", decorators, members, TRUE, "LitElement", UndefinedNode)
CustomElementDecorator ==
  TsDecorator(TRUE, "customElement", <<TsLiteral("StringLiteral", "my-element")>>)
\* render() { return html(<h1>Hello ${e1}...${en}</h1>); }
RenderHello(expressions) ==
  TsMember("MethodDeclaration", "render", <<>>, UndefinedNode,
    TsBlock("render.body",
      <<TsReturn(LitHtml([i \in 1..(Len(expressions) + 1) |-> UndefinedNode],
          expressions,
          <<HtmlElement("h1", <<>>,
              <<HtmlText(<<"Hello ">> \o [i \in 1..Len(expressions) |-> ""])>>,
              TRUE)>>))>>))
\* html(${e1}...${en}): one text node holding n markers
TextTemplate(expressions) ==
  LitHtml([i \in 1..(Len(expressions) + 1) |-> UndefinedNode], expressions,
          <<HtmlText([i \in 1..(Len(expressions) + 1) |-> ""])>>)

\* The known components of a converter: tag name to template name.
DefinedElements ==
  [tagName \in {"outer-element", "inner-element"} |->
     IF tagName = "outer-element" THEN "OuterElement" ELSE "InnerElement"]

\* The source files of the program.
sourceFiles ==
  << \* 'simple template', with an unmarked function beside it
     SourceFile("simple.ts", <<"simple.ts">>, TRUE, "", TRUE, TRUE, <<>>,
       <<ImportHtml,
         MarkedFunction("t", <<>>, DivTemplate),
         TsTopVariableStatement(FALSE,
           <<TsVariableDeclaration("u",
               TsArrowFunction("u", <<>>, DivTemplate, FALSE))>>)>>),
     \* 'error on unknown reference'
     SourceFile("unknown.ts", <<"unknown.ts">>, TRUE, "", TRUE, TRUE, <<>>,
       <<ImportHtml,
         MarkedFunction("t", <<>>,
           TextTemplate(<<TsIdentifier("a", UndefinedNode, 0)>>))>>),
     \* calls of a template function that is declared further down, of one
     \* declared before, and of the calling function itself
     SourceFile("calls.ts", <<"lib", "calls.ts">>, TRUE, "", TRUE, TRUE, <<>>,
       <<ImportHtml,
         MarkedFunction("a", <<>>,
           TextTemplate(<<TsCall(
             TsIdentifier("b", Declaration("VariableDeclaration", "calls.ts", "b"), 1),
             <<>>, "b")>>)),
         MarkedFunction("b", <<>>, DivTemplate),
         MarkedFunction("c", <<>>,
           TextTemplate(<<TsCall(
             TsIdentifier("b", Declaration("VariableDeclaration", "calls.ts", "b"), 1),
             <<>>, "b"),
             TsCall(
             TsIdentifier("c", Declaration("VariableDeclaration", "calls.ts", "c"), 1),
             <<>>, "c")>>))>>),
     \* 'error on unsupported statements', and a `let` before the return
     SourceFile("blocks.ts", <<"blocks.ts">>, TRUE, "", TRUE, TRUE, <<>>,
       <<ImportHtml,
         MarkedFunction("t", <<TsParameter("a", TRUE, TRUE, Types.string)>>,
           TsBlock("t.body",
             <<TsOther("FunctionDeclaration", "function f() {}")>>)),
         MarkedFunction("v", <<TsParameter("a", TRUE, TRUE, Types.string)>>,
           TsBlock("v.body",
             <<TsVariableStatement(FALSE,
                 <<TsVariableDeclaration("x", ParameterReference("v", "a"))>>),
               TsReturn(TextTemplate(<<ParameterReference("v", "a")>>))>>)),
         MarkedFunction("w", <<TsParameter("a", TRUE, TRUE, Types.string)>>,
           TsBlock("w.body",
             <<TsVariableStatement(TRUE,
                 <<TsVariableDeclaration("x", ParameterReference("w", "a"))>>),
               TsReturn(TextTemplate(
                 <<TsIdentifier("x",
                     Declaration("VariableDeclaration", "w.body", "x"), 1)>>))>>))>>),
     \* 'error on strict equality'
     SourceFile("equality.ts", <<"equality.ts">>, TRUE, "", TRUE, TRUE, <<>>,
       <<ImportHtml,
         MarkedFunction("t", <<TsParameter("a", TRUE, TRUE, Types.string),
                               TsParameter("b", TRUE, TRUE, Types.string)>>,
           TextTemplate(
             <<TsBinary(ParameterReference("t", "a"), "===",
                        ParameterReference("t", "b")),
               TsBinary(ParameterReference("t", "a"), "!==",
                        ParameterReference("t", "b"))>>))>>),
     \* an attribute binding, a conditional and a loop over parameters:
     \* (a: string, b: number, c: boolean, d: string[]) =>
     \*   html(<div class="${a}">${b}${c ? html(yes) : html(no)}
     \*        ${d.map((i) => html(<li>${i}</li>))}</div>)
     SourceFile("params.ts", <<"params.ts">>, TRUE, "", TRUE, TRUE, <<>>,
       <<ImportHtml,
         MarkedFunction("t", <<TsParameter("a", TRUE, TRUE, Types.string),
                               TsParameter("b", TRUE, TRUE, Types.number),
                               TsParameter("c", TRUE, TRUE, Types.boolean),
                               TsParameter("d", TRUE, TRUE, Types.stringArray)>>,
           LitHtml(<<[first |-> "c", rest |-> "lass"], UndefinedNode, UndefinedNode,
                     UndefinedNode, UndefinedNode>>,
             <<ParameterReference("t", "a"),
               ParameterReference("t", "b"),
               TsConditional(ParameterReference("t", "c"),
                 LitHtml(<<UndefinedNode>>, <<>>, <<HtmlText(<<"yes">>)>>),
                 LitHtml(<<UndefinedNode>>, <<>>, <<HtmlText(<<"no">>)>>)),
               TsCall(
                 TsPropertyAccess(ParameterReference("t", "d"), "map",
                   Types.stringArray,
                   TsMember("MethodSignature", "map", <<>>, UndefinedNode,
                            UndefinedNode)),
                 <<TsArrowFunction("t.map",
                     <<TsParameter("i", FALSE, TRUE, Types.string)>>,
                     LitHtml(<<UndefinedNode, UndefinedNode>>,
                       <<ParameterReference("t.map", "i")>>,
                       <<HtmlElement("li", <<>>, <<HtmlText(<<"", "">>)>>, TRUE)>>),
                     FALSE)>>,
                 "Array.map")>>,
             <<HtmlElement("div",
                 <<HtmlAttr([first |-> "c", rest |-> "lass"], <<"", "">>)>>,
                 <<HtmlText(<<"", "", "", "">>)>>, TRUE)>>))>>),
     \* parameters without a type annotation, and one of a type without a Soy
     \* equivalent: t = (a = 'x') => html(${a}); u = ({b}, c: symbol) => html(<div>)
     SourceFile("untyped.ts", <<"untyped.ts">>, TRUE, "", TRUE, TRUE, <<>>,
       <<ImportHtml,
         MarkedFunction("t", <<TsParameter("a", FALSE, TRUE, Types.string)>>,
           TextTemplate(<<ParameterReference("t", "a")>>)),
         MarkedFunction("u", <<TsParameter("{b}", FALSE, FALSE, UndefinedNode),
                               TsParameter("c", TRUE, TRUE, Types.symbol)>>,
           DivTemplate)>>),
     \* 'converts properties to params' and 'handles inherited properties':
     \* class MyElementParent extends LitElement { @property() bar: string; }
     \* @customElement('my-element') class MyElement extends MyElementParent {
     \*   @property() name: string; render() {...${this.name}${this.bar}...} }
     SourceFile("element.ts", <<"element.ts">>, TRUE, "", TRUE, TRUE, <<>>,
       <<ImportHtml,
         TsClass(FALSE, "MyElementParent", <<>>,
           <<TsMember("PropertyDeclaration", "bar",
               <<TsDecorator(TRUE, "property", <<>>)>>, Types.string, UndefinedNode)>>,
           TRUE, "LitElement", UndefinedNode),
         TsClass(TRUE, "MyElement", <<CustomElementDecorator>>,
           <<TsMember("PropertyDeclaration", "name",
               <<TsDecorator(TRUE, "property", <<>>)>>, Types.string, UndefinedNode),
             RenderHello(
               <<TsPropertyAccess(TsThis, "name", UndefinedNode,
                   TsMember("PropertyDeclaration", "name",
                     <<TsDecorator(TRUE, "property", <<>>)>>, Types.string,
                     UndefinedNode)),
                 TsPropertyAccess(TsThis, "bar", UndefinedNode,
                   TsMember("PropertyDeclaration", "bar",
                     <<TsDecorator(TRUE, "property", <<>>)>>, Types.string,
                     UndefinedNode))>>)>>,
           TRUE, "MyElementParent",
           TsClass(FALSE, "MyElementParent", <<>>,
             <<TsMember("PropertyDeclaration", "bar",
                 <<TsDecorator(TRUE, "property", <<>>)>>, Types.string,
                 UndefinedNode)>>,
             TRUE, "LitElement", UndefinedNode))>>),
     \* 'errors when referenced property is not decorated with @property()',
     \* and a reference to a property that is not declared
     SourceFile("undecorated.ts", <<"undecorated.ts">>, TRUE, "", TRUE, TRUE, <<>>,
       <<ImportHtml,
         MyElement(<<CustomElementDecorator>>,
           <<TsMember("PropertyDeclaration", "bar", <<>>, Types.string,
                      UndefinedNode),
             RenderHello(
               <<TsPropertyAccess(TsThis, "bar", UndefinedNode,
                   TsMember("PropertyDeclaration", "bar", <<>>, Types.string,
                            UndefinedNode)),
                 TsPropertyAccess(TsThis, "baz", UndefinedNode,
                                  UndefinedNode)>>)>>)>>),
     \* a reference to an accessor decorated with a decorator that is not
     \* declared: @foo() get bar() {...}
     SourceFile("accessor.ts", <<"accessor.ts">>, TRUE, "", TRUE, TRUE, <<>>,
       <<ImportHtml,
         MyElement(<<CustomElementDecorator>>,
           <<TsMember("GetAccessor", "bar", <<TsDecorator(TRUE, NoSymbol, <<>>)>>,
                      Types.string, TsBlock("bar.body", <<>>)),
             RenderHello(
               <<TsPropertyAccess(TsThis, "bar", UndefinedNode,
                   TsMember("GetAccessor", "bar",
                     <<TsDecorator(TRUE, NoSymbol, <<>>)>>, Types.string,
                     TsBlock("bar.body", <<>>)))>>)>>)>>),
     \* marked classes without a usable customElement decorator: none at all,
     \* @customElement(), @customElement(tag); an unnamed class; a class
     \* without a render method, with a marked function after it
     SourceFile("decorators.ts", <<"decorators.ts">>, TRUE, "", TRUE, TRUE, <<>>,
       <<ImportHtml,
         MyElement(<<>>, <<RenderHello(<<>>)>>),
         MyElement(<<TsDecorator(TRUE, "customElement", <<>>)>>,
                   <<RenderHello(<<>>)>>),
         MyElement(<<TsDecorator(TRUE, "customElement",
                       <<TsIdentifier("tag",
                           Declaration("VariableDeclaration", "decorators.ts", "tag"),
                           1)>>)>>,
                   <<RenderHello(<<>>)>>),
         TsClass(TRUE, Undefined, <<CustomElementDecorator>>, <<RenderHello(<<>>)>>,
                 TRUE, "LitElement", UndefinedNode),
         MyElement(<<CustomElementDecorator>>, <<>>),
         MarkedFunction("t", <<>>, DivTemplate)>>),
     \* a marked class with a decorator that is not declared: @foo() class ...
     SourceFile("classdecorator.ts", <<"classdecorator.ts">>, TRUE, "", TRUE, TRUE,
       <<>>,
       <<ImportHtml,
         MyElement(<<TsDecorator(TRUE, NoSymbol, <<>>)>>, <<RenderHello(<<>>)>>)>>),
     \* a mapper without parameters: (items: string[]) =>
     \*   html(${items.map(() => html(x))})
     SourceFile("lambda.ts", <<"lambda.ts">>, TRUE, "", TRUE, TRUE, <<>>,
       <<ImportHtml,
         MarkedFunction("t", <<TsParameter("items", TRUE, TRUE, Types.stringArray)>>,
           TextTemplate(
             <<TsCall(
                 TsPropertyAccess(ParameterReference("t", "items"), "map",
                   Types.stringArray,
                   TsMember("MethodSignature", "map", <<>>, UndefinedNode,
                            UndefinedNode)),
                 <<TsArrowFunction("t.map", <<>>,
                     LitHtml(<<UndefinedNode>>, <<>>, <<HtmlText(<<"x">>)>>),
                     FALSE)>>,
                 "Array.map")>>))>>),
     \* a property binding without an interpolation: html(<input .value="x">)
     SourceFile("binding.ts", <<"binding.ts">>, TRUE, "", TRUE, TRUE, <<>>,
       <<ImportHtml,
         MarkedFunction("t", <<>>,
           LitHtml(<<UndefinedNode>>, <<>>,
             <<HtmlElement("input",
                 <<HtmlAttr([first |-> ".", rest |-> "value"], <<"x">>)>>,
                 <<>>, FALSE)>>))>>),
     \* a parameter of an array-assignable type that is no type reference:
     \* (a: string[] | number[]) => html(<div></div>)
     SourceFile("arraytype.ts", <<"arraytype.ts">>, TRUE, "", TRUE, TRUE, <<>>,
       <<ImportHtml,
         MarkedFunction("t", <<TsParameter("a", TRUE, TRUE, Types.arrayUnion)>>,
                        DivTemplate)>>),
     \* a template tag that is not declared: () => foo(<div></div>)
     SourceFile("tag.ts", <<"tag.ts">>, TRUE, "", TRUE, TRUE, <<>>,
       <<ImportHtml,
         MarkedFunction("t", <<>>,
           TsTaggedTemplate(NoSymbol, <<UndefinedNode>>, <<>>,
                            <<HtmlElement("div", <<>>, <<>>, TRUE)>>))>>),
     \* a file that marks nothing: 'missing @soyCompatible'
     SourceFile("unmarked.ts", <<"unmarked.ts">>, TRUE, "", TRUE, TRUE, <<>>,
       <<ImportHtml,
         TsTopVariableStatement(FALSE,
           <<TsVariableDeclaration("t",
               TsArrowFunction("t", <<>>, DivTemplate, FALSE))>>)>>),
     \* lit-html is not resolved: `html` is not its export
     SourceFile("noimport.ts", <<"noimport.ts">>, FALSE,
       "TypeScript couldn't resolve the module 'lit-html'.", FALSE, FALSE, <<>>,
       <<MarkedFunction("t", <<>>, DivTemplate)>>),
     \* a converter that knows two components:
     \* html(<outer-element><inner-element></inner-element><p></p></outer-element>)
     SourceFile("components.ts", <<"components.ts">>, TRUE, "", TRUE, TRUE,
       DefinedElements,
       <<ImportHtml,
         MarkedFunction("t", <<>>,
           LitHtml(<<UndefinedNode>>, <<>>,
             <<HtmlElement("outer-element", <<>>,
                 <<HtmlElement("inner-element", <<>>, <<>>, TRUE),
                   HtmlElement("p", <<>>, <<>>, TRUE)>>,
                 TRUE)>>))>>)
  >>

MaxRuns == 2

VARIABLES
  litTemplateDeclarations,  \* the module's registry of template functions
  runs,         \* the number of converters constructed so far
  pc,           \* where the current run is
  sourceFile,   \* this.sourceFile, an index of sourceFiles
  diagnostics,  \* this.diagnostics, the messages
  commands,     \* convertFile's `commands`
  position,     \* the top-level node and the declaration of it being visited
  pending,      \* `commands` of the call converting the current top-level node
  task,         \* the function whose block body is being converted
  content,      \* the latest read of the output file's `content`
  results       \* what the runs so far have returned

vars == <<litTemplateDeclarations, runs, pc, sourceFile, diagnostics, commands,
          position, pending, task, content, results>>

NoTask == [kind |-> "none"]
NotRead == [read |-> FALSE, ok |-> TRUE, text |-> ""]

Init ==
  /\ litTemplateDeclarations = {}
  /\ runs = 0
  /\ pc = "idle"
  /\ sourceFile = 0
  /\ diagnostics = <<>>
  /\ commands = <<>>
  /\ position = [node |-> 1, declaration |-> 1]
  /\ pending = <<>>
  /\ task = NoTask
  /\ content = NotRead
  /\ results = <<>>

\* What the converter's methods read from `this` and from the module.
\* A converter that would look its calls up in an empty registry
EnvOfEmptyRegistry(registry) ==
  [html |-> sourceFiles[sourceFile].html,
   property |-> sourceFiles[sourceFile].property,
   customElement |-> sourceFiles[sourceFile].customElement,
   definedElements |-> sourceFiles[sourceFile].definedElements,
   litTemplateDeclarations |-> {}]

Env(registry) ==
  [html |-> sourceFiles[sourceFile].html,
   property |-> sourceFiles[sourceFile].property,
   customElement |-> sourceFiles[sourceFile].customElement,
   definedElements |-> sourceFiles[sourceFile].definedElements,
   litTemplateDeclarations |-> registry]

\* new SoyConverter(sourceFile, ...) and the start of convertFile()
StartRun(f) ==
  /\ pc \in {"idle", "done", "threw"}
  /\ runs < MaxRuns
  /\ runs' = runs + 1
  /\ sourceFile' = f
  /\ diagnostics' = IF sourceFiles[f].html THEN <<>> ELSE <<sourceFiles[f].htmlError>>
  /\ commands' = <<Namespace(soyNamespace(sourceFiles[f].localPath))>>
  /\ position' = [node |-> 1, declaration |-> 1]
  /\ pending' = <<>>
  /\ task' = NoTask
  /\ content' = NotRead
  /\ pc' = "file"
  /\ UNCHANGED <<litTemplateDeclarations, results>>

\* The top-level node that forEachChild is at.
CurrentNode == sourceFiles[sourceFile].statements[position.node]
Visiting ==
  /\ pc = "file"
  /\ position.node <= Len(sourceFiles[sourceFile].statements)

\* An exception leaves the converter.
Throw(d) ==
  /\ pc' = "threw"
  /\ diagnostics' = diagnostics \o d
  /\ UNCHANGED <<runs, sourceFile, commands, position, pending, task, content, results>>

\* A convertFile that would put what a node's call returns in front of the
\* commands it has.
ReturnUnshift(templates, d) ==
  LET last == CurrentNode.k = "ClassDeclaration"
              \/ position.declaration = Len(CurrentNode.declarations)
  IN /\ pc' = "file"
     /\ diagnostics' = diagnostics \o d
     /\ task' = NoTask
     /\ IF last
        THEN /\ commands' = pending \o templates \o commands
             /\ pending' = <<>>
             /\ position' = [node |-> position.node + 1, declaration |-> 1]
        ELSE /\ commands' = commands
             /\ pending' = pending \o templates
             /\ position' = [position EXCEPT !.declaration = @ + 1]
     /\ UNCHANGED <<runs, sourceFile, content, results>>

\* The call converting a declaration returns `templates`; after the last
\* declaration of the node, convertFile pushes what the node's call returns.
Return(templates, d) ==
  LET last == CurrentNode.k = "ClassDeclaration"
              \/ position.declaration = Len(CurrentNode.declarations)
  IN /\ pc' = "file"
     /\ diagnostics' = diagnostics \o d
     /\ task' = NoTask
     /\ IF last
        THEN /\ commands' = commands \o pending \o templates
             /\ pending' = <<>>
             /\ position' = [node |-> position.node + 1, declaration |-> 1]
        ELSE /\ commands' = commands
             /\ pending' = pending \o templates
             /\ position' = [position EXCEPT !.declaration = @ + 1]
     /\ UNCHANGED <<runs, sourceFile, content, results>>

\* convertLitTemplateFunctionBody starts on a block.
EnterBlock(kind, name, prefix, block, scope, d, templates) ==
  /\ pc' = "block"
  /\ diagnostics' = diagnostics \o d
  /\ pending' = pending \o templates
  /\ task' = [kind |-> kind, name |-> name, prefix |-> prefix, block |-> block,
              next |-> 1, frame |-> BodyFrame(<<>>, scope, FALSE, <<>>, FALSE)]
  /\ UNCHANGED <<runs, sourceFile, commands, position, content, results>>

\* forEachChild's callback on a node that is neither a marked function
\* declaration nor a marked class
SkipNode ==
  /\ Visiting
  /\ ~isLitTemplateFunctionDeclaration(CurrentNode)
  /\ ~isLitElement(CurrentNode)
  /\ position' = [node |-> position.node + 1, declaration |-> 1]
  /\ UNCHANGED <<litTemplateDeclarations, runs, pc, sourceFile, diagnostics,
                 commands, pending, task, content, results>>

\* One iteration of convertLitTemplateFunctionDeclaration's loop, with
\* convertLitTemplateFunction for a marked arrow function.
ConvertFunction ==
  /\ Visiting
  /\ isLitTemplateFunctionDeclaration(CurrentNode)
  /\ LET declaration == CurrentNode.declarations[position.declaration]
         node == declaration.initializer
     IN IF ~(node /= UndefinedNode /\ isLitTemplateFunction(node))
        THEN Return(<<>>, <<>>) /\ UNCHANGED litTemplateDeclarations
        ELSE LET variable == getVariableDeclaration(
                               sourceFiles[sourceFile].fileName, declaration.name)
                 registry == litTemplateDeclarations \cup {variable}
                 scope == TemplateScope(<<FunctionFrame(node.id)>>, NoElement)
                 convert(parameters, body) ==
                   IF parameters.t THEN Throw(parameters.d)
                   ELSE IF node.body.k = "Block"
                   THEN EnterBlock("function", declaration.name, parameters.e,
                                   node.body, scope, parameters.d, <<>>)
                   ELSE IF body.t THEN Throw(parameters.d \o body.d)
                   ELSE Return(<<Template(declaration.name,
                                          parameters.e \o body.e)>>,
                               parameters.d \o body.d)
             IN /\ litTemplateDeclarations' = registry
                /\ convert(convertParameters(node.parameters),
                           convertLitTemplateFunctionBody(node.body, scope,
                                                          Env(registry)))

\* A convertLitElement that would return before it pushes the wrapper template
\* when it finds no render method.
ConvertElementWithoutWrapper ==
  /\ Visiting
  /\ ~isLitTemplateFunctionDeclaration(CurrentNode)
  /\ isLitElement(CurrentNode)
  /\ UNCHANGED litTemplateDeclarations
  /\ LET convert(r) ==
           IF r.t THEN Throw(r.d)
           ELSE IF r.e.wrapper = UndefinedNode THEN Return(<<>>, r.d)
           ELSE IF r.e.render = UndefinedNode THEN Return(<<>>, r.d)
           ELSE IF r.e.render.body = UndefinedNode THEN Throw(r.d)
           ELSE EnterBlock("render", CurrentNode.name \o "_shadow", r.e.params,
                           r.e.render.body,
                           TemplateScope(<<FunctionFrame(r.e.render.name)>>,
                                         CurrentNode.name),
                           r.d, <<r.e.wrapper>>)
     IN convert(convertLitElementHead(CurrentNode, Env(litTemplateDeclarations)))

\* convertLitElement, up to the body of the render method
ConvertElement ==
  /\ Visiting
  /\ ~isLitTemplateFunctionDeclaration(CurrentNode)
  /\ isLitElement(CurrentNode)
  /\ UNCHANGED litTemplateDeclarations
  /\ LET convert(r) ==
           IF r.t THEN Throw(r.d)
           ELSE IF r.e.wrapper = UndefinedNode THEN Return(<<>>, r.d)
           ELSE IF r.e.render = UndefinedNode THEN Return(<<r.e.wrapper>>, r.d)
           ELSE IF r.e.render.body = UndefinedNode THEN Throw(r.d)
           ELSE EnterBlock("render", CurrentNode.name \o "_shadow", r.e.params,
                           r.e.render.body,
                           TemplateScope(<<FunctionFrame(r.e.render.name)>>,
                                         CurrentNode.name),
                           r.d, <<r.e.wrapper>>)
     IN convert(convertLitElementHead(CurrentNode, Env(litTemplateDeclarations)))

\* One iteration of `for (const statement of node.statements)`
ConvertStatement ==
  /\ pc = "block"
  /\ task.next <= Len(task.block.statements)
  /\ UNCHANGED litTemplateDeclarations
  /\ LET step(frame) ==
           IF frame.t THEN Throw(frame.d)
           ELSE /\ task' = [task EXCEPT !.next = @ + 1,
                                        !.frame = [frame EXCEPT !.d = <<>>]]
                /\ diagnostics' = diagnostics \o frame.d
                /\ UNCHANGED <<runs, pc, sourceFile, commands, position, pending,
                               content, results>>
     IN step(convertStatement(task.block.statements[task.next], task.block.id,
                              task.frame, Env(litTemplateDeclarations)))

\* The end of the block: the loop is over, the template is built.
FinishBlock ==
  /\ pc = "block"
  /\ task.next > Len(task.block.statements)
  /\ UNCHANGED litTemplateDeclarations
  /\ LET body == finishBlock(task.frame)
     IN Return(<<Template(task.name, task.prefix \o body.e)>>, body.d)

\* The end of convertFile: it returns the output file and the diagnostics.
ReturnFiles ==
  /\ pc = "file"
  /\ position.node > Len(sourceFiles[sourceFile].statements)
  /\ pc' = "done"
  /\ results' = Append(results, [sourceFile |-> sourceFile,
                                 outputAST |-> File(commands),
                                 diagnostics |-> diagnostics])
  /\ UNCHANGED <<litTemplateDeclarations, runs, sourceFile, diagnostics, commands,
                 position, pending, task, content>>

\* A read of the output file's `content`: outputAST.emit() is drained.
ReadContent ==
  /\ pc = "done"
  /\ ~content.read
  /\ LET read(output) == [read |-> TRUE, ok |-> output.ok, text |-> output.text]
     IN content' = read(emit(File(commands)))
  /\ UNCHANGED <<litTemplateDeclarations, runs, pc, sourceFile, diagnostics,
                 commands, position, pending, task, results>>

Next ==
  \/ \E f \in DOMAIN sourceFiles : StartRun(f)
  \/ SkipNode
  \/ ConvertFunction
  \/ ConvertElement
  \/ ConvertStatement
  \/ FinishBlock
  \/ ReturnFiles
  \/ ReadContent

Spec == Init /\ [][Next]_vars

(***************************************************************************)
(* Serialization of output trees                                           *)
(***************************************************************************)
\* Whether an ErrorExpression occurs in the tree, at any depth.
RECURSIVE containsError(_), anyError(_)
anyError(nodes) == \E i \in DOMAIN nodes : containsError(nodes[i])
containsError(node) ==
  CASE node.c = "ErrorExpression" -> TRUE
    [] node.c \in {"File", "Template"} -> anyError(node.commands)
    [] node.c \in {"Print", "UnaryOperator", "Paren"} -> containsError(node.child)
    [] node.c = "Block" -> anyError(node.children)
    [] node.c \in {"CallParameter", "LetCommand"} -> containsError(node.value)
    [] node.c = "CallCommand" -> anyError(node.parameters)
    [] node.c = "IfCommand" ->
         \/ containsError(node.condition)
         \/ anyError(node.whenTrue)
         \/ anyError(node.whenFalse)
    [] node.c = "ForCommand" ->
         containsError(node.expression) \/ anyError(node.body)
    [] node.c = "BinaryOperator" ->
         containsError(node.left) \/ containsError(node.right)
    [] node.c = "PropertyAccess" -> containsError(node.receiver)
    [] node.c = "Index" ->
         containsError(node.receiver) \/ containsError(node.argument)
    [] node.c = "CallExpression" -> anyError(node.arguments)
    [] node.c = "Ternary" ->
         \/ containsError(node.condition)
         \/ containsError(node.trueExpr)
         \/ containsError(node.falseExpr)
    [] node.c = "Record" ->
         \E i \in DOMAIN node.entries : containsError(node.entries[i][2])
    [] OTHER -> FALSE

\* Output trees to serialize: one leaf, an error marker or an identifier, under
\* two levels of expressions, in every place a command keeps an expression.
LeafExpressions == {ErrorExpression, Identifier("a")}
ExpressionContexts(x) ==
  {x,
   UnaryOperator("not", x),
   BinaryOperator("+", x, Identifier("b")),
   BinaryOperator("+", Identifier("b"), x),
   PropertyAccess(x, "p"),
   CallExpression("strLen", <<Identifier("b"), x>>),
   Paren(x),
   Index(x, NumberLiteral("0")),
   Index(Identifier("b"), x),
   Ternary(x, NumberLiteral("1"), NumberLiteral("2")),
   Ternary(Identifier("b"), x, NumberLiteral("2")),
   Ternary(Identifier("b"), NumberLiteral("1"), x),
   Record(<<<<"j", Identifier("b")>>, <<"k", x>>>>)}
OutputExpressions ==
  UNION {ExpressionContexts(y) :
           y \in UNION {ExpressionContexts(x) : x \in LeafExpressions}}
CommandContexts(e) ==
  {e,
   SoyPrint(e),
   IfCommand(e, <<RawText("y")>>, <<>>),
   IfCommand(Identifier("b"), <<SoyPrint(e)>>, <<>>),
   IfCommand(Identifier("b"), <<>>, <<SoyPrint(e)>>),
   ForCommand("i", e, <<RawText("y")>>),
   ForCommand("i", Identifier("b"), <<SoyPrint(e)>>),
   LetCommand("x", e),
   CallCommand("u", <<CallParameter("p", e, Undefined)>>),
   CallCommand("u", <<CallParameter("children", Block(<<SoyPrint(e)>>), "html")>>)}
OutputTrees ==
  {<<Namespace("test.ts"), Template("t", <<RawText("<p>"), c, RawText("</p>")>>)>> :
     c \in UNION {CommandContexts(e) : e \in OutputExpressions}}

\* A converter that has returned one of the trees; its output is then read.
InitEmit ==
  /\ litTemplateDeclarations = {}
  /\ runs = 1
  /\ pc = "done"
  /\ sourceFile = 1
  /\ diagnostics = <<>>
  /\ commands \in OutputTrees
  /\ position = [node |-> 1, declaration |-> 1]
  /\ pending = <<>>
  /\ task = NoTask
  /\ content = NotRead
  /\ results = <<>>

NextEmit == ReadContent

SpecEmit == InitEmit /\ [][NextEmit]_vars

\* C1: serializing an output tree that contains an error marker, at any depth,
\* raises an error: once the content of such a tree has been read, the read has
\* failed.  A tree without a marker serializes to text.
C1_ErrorMarkerRaises ==
  content.read => (content.ok <=> ~containsError(File(commands)))

\* C1 witness: the content of a tree whose error marker lies two expressions
\* deep inside a command has been read.
C1_MarkerRead ==
  /\ content.read
  /\ ~content.ok
  /\ commands[2].commands[2] =
       IfCommand(Identifier("b"),
                 <<SoyPrint(Ternary(Identifier("b"), NumberLiteral("1"),
                                    Paren(ErrorExpression)))>>, <<>>)

(***************************************************************************)
(* Properties of conversion runs                                           *)
(***************************************************************************)
\* C2: conversion of a source file never throws: the converter returns an output
\* and a diagnostics list, and every unsupported or malformed construct is
\* reported as a diagnostic.
C2_ConversionNeverThrows == pc /= "threw"

\* C3: two runs of the converter on the same source file return the same output
\* text (or both fail to serialize) and the same diagnostics list.
C3_RunsAgree ==
  \A i, j \in DOMAIN results :
    results[i].sourceFile = results[j].sourceFile =>
      /\ emit(results[i].outputAST) = emit(results[j].outputAST)
      /\ results[i].diagnostics = results[j].diagnostics

\* The template functions the current run has reached: the marked arrow
\* functions declared in the file up to the position of the traversal.
reachedInThisRun ==
  LET statements == sourceFiles[sourceFile].statements
  IN {getVariableDeclaration(sourceFiles[sourceFile].fileName,
                             statements[n[1]].declarations[n[2]].name) :
        n \in {m \in UNION {{<<s, d>> : d \in DOMAIN statements[s].declarations} :
                              s \in {s \in DOMAIN statements :
                                       isLitTemplateFunctionDeclaration(statements[s])}} :
                 /\ statements[m[1]].declarations[m[2]].initializer /= UndefinedNode
                 /\ isLitTemplateFunction(statements[m[1]].declarations[m[2]].initializer)
                 /\ \/ m[1] < position.node
                    \/ m[1] = position.node /\ m[2] <= position.declaration}}

\* C4: at every point of a run, the table of known template functions holds
\* only functions registered earlier in that run, none of a previous run.
C4_RegistryOfThisRun ==
  runs > 0 => litTemplateDeclarations \subseteq reachedInThisRun

\* The names of the templates the declarations of a file can produce, in the
\* order of the declarations in the source.
RECURSIVE declaredTemplateNames(_)
declaredTemplateNames(statements) ==
  IF statements = <<>> THEN <<>>
  ELSE LET node == Head(statements)
           functions == {i \in DOMAIN node.declarations :
                           /\ node.declarations[i].initializer /= UndefinedNode
                           /\ isLitTemplateFunction(node.declarations[i].initializer)}
           names == IF isLitTemplateFunctionDeclaration(node)
                    THEN [i \in DOMAIN node.declarations |->
                            IF i \in functions THEN <<node.declarations[i].name>>
                            ELSE <<>>]
                    ELSE IF isLitElement(node) /\ node.name /= Undefined
                    THEN <<<<node.name, node.name \o "_shadow">>>>
                    ELSE <<>>
           flatten[i \in 0..Len(names)] ==
             IF i = 0 THEN <<>> ELSE flatten[i - 1] \o names[i]
       IN flatten[Len(names)] \o declaredTemplateNames(Tail(statements))

RECURSIVE isSubsequence(_, _)
isSubsequence(s, t) ==
  IF s = <<>> THEN TRUE
  ELSE IF t = <<>> THEN FALSE
  ELSE IF Head(s) = Head(t) THEN isSubsequence(Tail(s), Tail(t))
  ELSE isSubsequence(s, Tail(t))

\* C5: the command list convertFile builds is one namespace command followed
\* only by template commands, in the source order of the declarations that
\* produced them; every marked function has its template once the file is
\* converted, and a file without marked declarations gives the header alone.
C5_NamespaceThenTemplates ==
  pc \in {"file", "block", "done"} =>
    LET declared == declaredTemplateNames(sourceFiles[sourceFile].statements)
        names == [i \in 1..(Len(commands) - 1) |-> commands[i + 1].name]
    IN /\ commands /= <<>>
       /\ commands[1] = Namespace(soyNamespace(sourceFiles[sourceFile].localPath))
       /\ \A i \in 2..Len(commands) : commands[i].c = "Template"
       /\ isSubsequence(names, declared)
       /\ declared = <<>> => commands = <<commands[1]>>
       /\ pc = "done" =>
            \A s \in DOMAIN sourceFiles[sourceFile].statements :
              LET node == sourceFiles[sourceFile].statements[s]
              IN isLitTemplateFunctionDeclaration(node) =>
                   \A d \in DOMAIN node.declarations :
                     (/\ node.declarations[d].initializer /= UndefinedNode
                      /\ isLitTemplateFunction(node.declarations[d].initializer))
                     => \E i \in DOMAIN names : names[i] = node.declarations[d].name

\* C5 witness: a file of three marked functions is converted to the header and
\* their three templates, in the order of the source.
C5_ThreeTemplates ==
  /\ pc = "done"
  /\ sourceFiles[sourceFile].fileName = "calls.ts"
  /\ Len(commands) = 4
  /\ commands[2].name = "a" /\ commands[3].name = "b" /\ commands[4].name = "c"

\* C6: converting a marked function records, for each of its parameters without
\* a type annotation, a "declared type" diagnostic, and emits the parameter as
\* a template parameter without a type.
C6_UnannotatedParameter ==
  [][(/\ Visiting
      /\ isLitTemplateFunctionDeclaration(CurrentNode)
      /\ pc' \in {"file", "block"})
     => LET node == CurrentNode.declarations[position.declaration].initializer
            unannotated == {i \in DOMAIN node.parameters :
                              ~node.parameters[i].annotated}
            produced == IF pc' = "block" THEN task'.prefix
                        ELSE (commands' \o pending')[Len(commands' \o pending')].commands
        IN (node /= UndefinedNode /\ isLitTemplateFunction(node)) =>
             /\ Cardinality({j \in (Len(diagnostics) + 1)..Len(diagnostics') :
                   diagnostics'[j] = "parameters must have a declared type"})
                  >= Cardinality(unannotated)
             /\ \A i \in unannotated :
                  produced[i] = TemplateParameter(node.parameters[i].name, Undefined)
    ]_vars

\* The interpolations of the template a class's render method returns.
renderExpressions(class) ==
  IF getRenderMethod(class) = UndefinedNode THEN <<>>
  ELSE getRenderMethod(class).body.statements[1].expression.expressions

\* The references this.x of a file's render methods to a member x that is not
\* declared with a call of the property decorator.
unreactiveReferences(file) ==
  {r \in UNION {{<<s, i>> :
                   i \in DOMAIN renderExpressions(file.statements[s])} :
                s \in {s \in DOMAIN file.statements :
                         isLitElement(file.statements[s])}} :
     LET e == renderExpressions(file.statements[r[1]])[r[2]]
     IN /\ e.k = "PropertyAccessExpression"
        /\ e.expression = TsThis
        /\ \/ e.member = UndefinedNode
           \/ \A d \in DOMAIN e.member.decorators :
                ~(e.member.decorators[d].isCall
                  /\ e.member.decorators[d].symbol = "property")}

\* C7: for every reference this.x in a render method to an x that is not marked
\* reactive, conversion records an "annotated" diagnostic and puts an error
\* marker in its place, so that serializing the output raises an error.
C7_UnreactiveReference ==
  (pc \in {"done", "threw"} /\ unreactiveReferences(sourceFiles[sourceFile]) /= {}) =>
    /\ pc = "done"
    /\ Cardinality({i \in DOMAIN diagnostics : diagnostics[i] =
          "referenced properties must be annotated with @property()"})
         >= Cardinality(unreactiveReferences(sourceFiles[sourceFile]))
    /\ containsError(File(commands))
    /\ content.read => ~content.ok

\* The statement the loop over a block's statements is at.
CurrentStatement == task.block.statements[task.next]
InBlock == pc = "block" /\ task.next <= Len(task.block.statements)

\* C9: in a block body, every statement that is neither a return statement nor
\* a const binding records "unsupported statement" and contributes no command.
C9_OtherStatementsSkipped ==
  [][(/\ InBlock
      /\ CurrentStatement.k /= "ReturnStatement"
      /\ ~(CurrentStatement.k = "VariableStatement" /\ CurrentStatement.isConst)
      /\ pc' = "block")
     => /\ diagnostics' = Append(diagnostics, "unsupported statement")
        /\ task'.frame.commands = task.frame.commands
    ]_vars

\* C9, amended: in a block body, a statement that is neither a return statement
\* nor a variable statement records "unsupported statement" and contributes no
\* command; a variable statement that is not const (let, var) records "non-const
\* variable declaration" and contributes an error marker to the commands; and a
\* block without a return statement records "must return a TemplateResult".
C9_StatementsOfABlock ==
  [][/\ (InBlock /\ pc' = "block") =>
          /\ CurrentStatement.k \notin {"ReturnStatement", "VariableStatement"} =>
               /\ diagnostics' = Append(diagnostics, "unsupported statement")
               /\ task'.frame.commands = task.frame.commands
          /\ (CurrentStatement.k = "VariableStatement" /\ ~CurrentStatement.isConst) =>
               /\ diagnostics' = Append(diagnostics, "non-const variable declaration")
               /\ task'.frame.commands = Append(task.frame.commands, ErrorExpression)
     /\ (/\ pc = "block"
         /\ task.next > Len(task.block.statements)
         /\ pc' = "file"
         /\ \A i \in DOMAIN task.block.statements :
              task.block.statements[i].k /= "ReturnStatement") =>
          diagnostics' = Append(diagnostics, "litTemplates must return a TemplateResult")
    ]_vars

\* C9 witness: the loop has passed a let statement, which left its diagnostic and
\* an error marker among the commands of the block.
C9_LetStatementPassed ==
  /\ pc = "block"
  /\ task.next > 1
  /\ task.block.statements[1].k = "VariableStatement"
  /\ ~task.block.statements[1].isConst
  /\ task.frame.commands = <<ErrorExpression>>
  /\ diagnostics /= <<>>
  /\ diagnostics[Len(diagnostics)] = "non-const variable declaration"

\* Whether a class carries a call of the customElement decorator whose single
\* argument is a string literal.
hasElementName(class) ==
  \E d \in DOMAIN class.decorators :
    /\ class.decorators[d].isCall
    /\ class.decorators[d].symbol = "customElement"
    /\ Len(class.decorators[d].args) = 1
    /\ class.decorators[d].args[1].k = "StringLiteral"

\* C10: converting a marked class without a customElement decorator call whose
\* single argument is a string literal records a diagnostic.
C10_MissingElementName ==
  [][(/\ Visiting
      /\ ~isLitTemplateFunctionDeclaration(CurrentNode)
      /\ isLitElement(CurrentNode)
      /\ ~hasElementName(CurrentNode))
     => Len(diagnostics') > Len(diagnostics)
    ]_vars

(***************************************************************************)
(* Strict equality in the interpolations of a template                     *)
(***************************************************************************)
\* Expressions over the parameters a and b of a function t: binary expressions
\* whose operands are atoms, binary expressions of atoms, or a parenthesised
\* strict equality; and a strict equality under the other operators.
Atoms ==
  {ParameterReference("t", "a"), ParameterReference("t", "b"),
   TsLiteral("NumericLiteral", "1")}
Operators == {"===", "!==", "==", "+", "instanceof"}
StrictEqualities ==
  {TsBinary(ParameterReference("t", "a"), o, ParameterReference("t", "b")) :
     o \in {"===", "!=="}}
Operands ==
  Atoms
  \cup {TsBinary(l, o, r) : l \in {ParameterReference("t", "a")}, o \in Operators,
                            r \in {ParameterReference("t", "b"),
                                   TsLiteral("NumericLiteral", "1")}}
  \cup {TsParen(e) : e \in StrictEqualities}
InputExpressions ==
  {TsBinary(l, o, r) : l \in Operands, o \in Operators, r \in Operands}
  \cup {TsParen(e) : e \in StrictEqualities}
  \cup {TsPrefixUnary(o, e) : o \in {"!", "~"}, e \in StrictEqualities}
  \cup {TsConditional(e, ParameterReference("t", "a"), f) :
          e \in StrictEqualities, f \in StrictEqualities}

\* html(${e}) and html(<div .foo=${e}></div>); no reflected attribute is
\* known for .foo on a div.
InputTemplate(where, e) ==
  IF where = "text" THEN TextTemplate(<<e>>)
  ELSE LitHtml(<<[first |-> ".", rest |-> "foo"], UndefinedNode>>, <<e>>,
         <<HtmlElement("div",
             <<HtmlAttr([first |-> ".", rest |-> "foo"], <<"", "">>)>>,
             <<>>, TRUE)>>)

\* A converter at the body of /** @soyCompatible */ (a, b) => html(...) in
\* simple.ts, the body being one of the templates above.
InitExpression ==
  /\ litTemplateDeclarations = {}
  /\ runs = 1
  /\ pc = "body"
  /\ sourceFile = 1
  /\ diagnostics = <<>>
  /\ commands = <<Namespace(soyNamespace(sourceFiles[1].localPath))>>
  /\ position = [node |-> 1, declaration |-> 1]
  /\ pending = <<>>
  /\ \E where \in {"text", "property"}, e \in InputExpressions :
       task = [kind |-> "body", where |-> where, expression |-> e,
               node |-> InputTemplate(where, e)]
  /\ content = NotRead
  /\ results = <<>>

\* convertLitTemplateFunctionBody on a body that is a tagged template; the
\* template it gives is the file's only one.
ConvertBody ==
  /\ pc = "body"
  /\ UNCHANGED litTemplateDeclarations
  /\ LET return(r) ==
           IF r.t THEN Throw(r.d)
           ELSE /\ pc' = "done"
                /\ diagnostics' = diagnostics \o r.d
                /\ commands' = Append(commands, Template("t", r.e))
                /\ UNCHANGED <<runs, sourceFile, position, pending, task, content,
                               results>>
     IN return(convertLitTemplateFunctionBody(
                 task.node, TemplateScope(<<FunctionFrame("t")>>, NoElement),
                 Env(litTemplateDeclarations)))

NextExpression == ConvertBody \/ ReadContent

SpecExpression == InitExpression /\ [][NextExpression]_vars

isStrictEquality(node) ==
  node.k = "BinaryExpression" /\ node.operator \in {"===", "!=="}

\* The number of strict equalities in an expression.
RECURSIVE strictEqualities(_)
strictEqualities(node) ==
  CASE node.k = "BinaryExpression" ->
         (IF isStrictEquality(node) THEN 1 ELSE 0)
           + strictEqualities(node.left) + strictEqualities(node.right)
    [] node.k = "ParenthesizedExpression" -> strictEqualities(node.expression)
    [] node.k = "PrefixUnaryExpression" -> strictEqualities(node.operand)
    [] node.k = "ConditionalExpression" ->
         strictEqualities(node.condition) + strictEqualities(node.whenTrue)
           + strictEqualities(node.whenFalse)
    [] OTHER -> 0

\* The number of strict equalities in an expression that are not inside an
\* operand of a strict equality or of an unsupported operator.
RECURSIVE strictEqualitiesOutermost(_)
strictEqualitiesOutermost(node) ==
  CASE node.k = "BinaryExpression" ->
         IF isStrictEquality(node) THEN 1
         ELSE IF node.operator = "instanceof" THEN 0
         ELSE strictEqualitiesOutermost(node.left)
                + strictEqualitiesOutermost(node.right)
    [] node.k = "ParenthesizedExpression" ->
         strictEqualitiesOutermost(node.expression)
    [] node.k = "PrefixUnaryExpression" ->
         IF node.operator = "~" THEN 0 ELSE strictEqualitiesOutermost(node.operand)
    [] node.k = "ConditionalExpression" ->
         strictEqualitiesOutermost(node.condition)
           + strictEqualitiesOutermost(node.whenTrue)
           + strictEqualitiesOutermost(node.whenFalse)
    [] OTHER -> 0

disallowed ==
  {i \in DOMAIN diagnostics :
     diagnostics[i] \in {"=== is disallowed. Use ==", "!== is disallowed. Use !="}}

\* C8: for each binary expression whose operator is === or !==, conversion
\* records exactly one "disallowed" diagnostic, an error marker replaces the
\* expression, and serializing the output raises an error.
C8_EachStrictEquality ==
  (pc = "done" /\ task.kind = "body") =>
    /\ Cardinality(disallowed) = strictEqualities(task.expression)
    /\ strictEqualities(task.expression) > 0 =>
         /\ containsError(File(commands))
         /\ content.read => ~content.ok

\* C8, amended: for each strict equality (=== or !==) that the expression
\* converter converts, which is one in an interpolation at a text position that
\* is not inside an operand of a rejected expression (another strict equality,
\* an unsupported operator), conversion records exactly one "disallowed"
\* diagnostic and puts an error marker in place of the whole expression without
\* converting its operands, and serializing the output raises an error.  A
\* strict equality that is the value of a property binding without a reflected
\* attribute is dropped with the binding: nothing is recorded for it and the
\* output has no error marker.
C8_StrictEqualityConverted ==
  (pc = "done" /\ task.kind = "body") =>
    IF task.where = "text"
    THEN /\ Cardinality(disallowed) = strictEqualitiesOutermost(task.expression)
         /\ isStrictEquality(task.expression) =>
              /\ Len(diagnostics) = 1
              /\ \E i \in DOMAIN commands[2].commands :
                   commands[2].commands[i] = SoyPrint(ErrorExpression)
         /\ strictEqualitiesOutermost(task.expression) > 0 =>
              /\ containsError(File(commands))
              /\ content.read => ~content.ok
    ELSE /\ diagnostics = <<>>
         /\ ~containsError(File(commands))
         /\ content.read => content.ok

\* C8 witness: html(${a === b}) is converted with the one diagnostic, and the
\* read of the content has failed.
C8_StrictEqualityRead ==
  /\ pc = "done"
  /\ task.kind = "body"
  /\ task.where = "text"
  /\ task.expression = TsBinary(ParameterReference("t", "a"), "===",
                                ParameterReference("t", "b"))
  /\ diagnostics = <<"=== is disallowed. Use ==">>
  /\ content.read
  /\ ~content.ok

(***************************************************************************)
(* Component classes                                                       *)
(***************************************************************************)
\* The traversal is at a marked, named class.
AtElement ==
  /\ Visiting
  /\ ~isLitTemplateFunctionDeclaration(CurrentNode)
  /\ isLitElement(CurrentNode)
  /\ CurrentNode.name /= Undefined

hasRenderMethod(class) ==
  \E i \in DOMAIN class.members :
    class.members[i].k = "MethodDeclaration" /\ class.members[i].name = "render"

RECURSIVE declaredParameters(_)
declaredParameters(templateCommands) ==
  IF templateCommands = <<>> THEN <<>>
  ELSE (IF Head(templateCommands).c = "TemplateParameter"
        THEN <<Head(templateCommands).name>> ELSE <<>>)
       \o declaredParameters(Tail(templateCommands))

\* The names of the parameters the calls of `templateName` in a template pass.
RECURSIVE passedParameters(_, _)
passedParameters(templateCommands, templateName) ==
  IF templateCommands = <<>> THEN <<>>
  ELSE (IF /\ Head(templateCommands).c = "CallCommand"
           /\ Head(templateCommands).templateName = templateName
        THEN [i \in DOMAIN Head(templateCommands).parameters |->
                Head(templateCommands).parameters[i].name]
        ELSE <<>>)
       \o passedParameters(Tail(templateCommands), templateName)

\* The names of the members of a class and of its parent classes, the class's
\* own first, that are property declarations decorated with a call of the
\* property decorator.
RECURSIVE reactiveProperties(_)
reactiveProperties(class) ==
  LET own == SelectSeq(class.members,
               LAMBDA m : /\ m.k = "PropertyDeclaration"
                          /\ \E d \in DOMAIN m.decorators :
                               m.decorators[d].isCall
                               /\ m.decorators[d].symbol = "property")
      names == [i \in DOMAIN own |-> own[i].name]
  IN IF class.parent = UndefinedNode THEN names
     ELSE names \o reactiveProperties(class.parent)

\* C12: for every class converted with its render method, the wrapper template
\* declares children: string and then one parameter per reactive property, and
\* the parameters it passes to the shadow template have the names, in the same
\* order, of the parameters the shadow template declares.
C12_WrapperCallsShadow ==
  \A i \in 2..(Len(commands) - 1) :
    commands[i + 1].name = commands[i].name \o "_shadow" =>
      LET wrapper == commands[i].commands
          shadow == commands[i + 1].commands
      IN /\ wrapper[1] = TemplateParameter("children", "string")
         /\ Tail(declaredParameters(wrapper)) = declaredParameters(shadow)
         /\ passedParameters(wrapper, commands[i + 1].name)
              = declaredParameters(shadow)
         /\ \E s \in DOMAIN sourceFiles[sourceFile].statements :
              /\ isLitElement(sourceFiles[sourceFile].statements[s])
              /\ sourceFiles[sourceFile].statements[s].name = commands[i].name
              /\ reactiveProperties(sourceFiles[sourceFile].statements[s])
                   = declaredParameters(shadow)

\* C12 witness: a class with a property of its own and an inherited one is
\* converted: the wrapper passes name and bar to the shadow template.
C12_TwoPropertiesPassed ==
  /\ pc = "done"
  /\ sourceFiles[sourceFile].fileName = "element.ts"
  /\ Len(commands) = 3
  /\ passedParameters(commands[2].commands, "MyElement_shadow") = <<"name", "bar">>
  /\ declaredParameters(commands[3].commands) = <<"name", "bar">>


(***************************************************************************)
(* The attributes of an element, one at a time                             *)
(***************************************************************************)
\* An attribute as the template's source has it: its name ([first, rest]),
\* whether it is written without a value (`checked`), the literal pieces of
\* its value and the interpolations between them.
WrittenAttribute(first, rest, bare, literals, expressions) ==
  [name |-> [first |-> first, rest |-> rest], bare |-> bare,
   literals |-> literals, expressions |-> expressions]

\* The k-th interpolation of the j-th attribute is the numeric literal jk: no
\* two interpolations of a template are the same.
Digits == <<"1", "2", "3", "4">>
Numeral(j, k) == TsLiteral("NumericLiteral", Digits[j] \o Digits[k])
OnClick(member) == TsPropertyAccess(TsThis, "onClick", UndefinedNode, member)
OnClickMethod ==
  TsMember("MethodDeclaration", "onClick", <<>>, UndefinedNode, UndefinedNode)

\* The attributes that may stand at position j of <input ...>.
WrittenAttributes(j) ==
  { \* checked  disabled=""  type="checkbox"  title="a${}"  title="${}b${}"
    WrittenAttribute("c", "hecked", TRUE, <<"">>, <<>>),
    WrittenAttribute("d", "isabled", FALSE, <<"">>, <<>>),
    WrittenAttribute("t", "ype", FALSE, <<"checkbox">>, <<>>),
    WrittenAttribute("t", "itle", FALSE, <<"a", "">>, <<Numeral(j, 1)>>),
    WrittenAttribute("t", "itle", FALSE, <<"", "b", "">>,
                     <<Numeral(j, 1), Numeral(j, 2)>>),
    \* .checked=${}  .checked="${}${}"  .checked="x${}"  .checked="${}x"
    WrittenAttribute(".", "checked", FALSE, <<"", "">>, <<Numeral(j, 1)>>),
    WrittenAttribute(".", "checked", FALSE, <<"", "", "">>,
                     <<Numeral(j, 1), Numeral(j, 2)>>),
    WrittenAttribute(".", "checked", FALSE, <<"x", "">>, <<Numeral(j, 1)>>),
    WrittenAttribute(".", "checked", FALSE, <<"", "x">>, <<Numeral(j, 1)>>),
    \* .value=${}  .foo=${}  .foo="${}${}"
    WrittenAttribute(".", "value", FALSE, <<"", "">>, <<Numeral(j, 1)>>),
    WrittenAttribute(".", "foo", FALSE, <<"", "">>, <<Numeral(j, 1)>>),
    WrittenAttribute(".", "foo", FALSE, <<"", "", "">>,
                     <<Numeral(j, 1), Numeral(j, 2)>>),
    \* @click=${this.onClick}, onClick a method or not a member at all;
    \* @click=${a}  @click="${this.onClick}${}"
    WrittenAttribute("@", "click", FALSE, <<"", "">>, <<OnClick(OnClickMethod)>>),
    WrittenAttribute("@", "click", FALSE, <<"", "">>, <<OnClick(UndefinedNode)>>),
    WrittenAttribute("@", "click", FALSE, <<"", "">>,
                     <<ParameterReference("t", "a")>>),
    WrittenAttribute("@", "click", FALSE, <<"", "", "">>,
                     <<OnClick(OnClickMethod), Numeral(j, 2)>>),
    \* ?hidden=${}  ?hidden="${}${}"
    WrittenAttribute("?", "hidden", FALSE, <<"", "">>, <<Numeral(j, 1)>>),
    WrittenAttribute("?", "hidden", FALSE, <<"", "", "">>,
                     <<Numeral(j, 1), Numeral(j, 2)>>) }

\* The lists of one to MaxAttributes attributes.
MaxAttributes == 2
RECURSIVE AttributeListsOf(_)
AttributeListsOf(n) ==
  IF n = 0 THEN {<<>>}
  ELSE {Append(l, a) : l \in AttributeListsOf(n - 1), a \in WrittenAttributes(n)}
AttributeLists == UNION {AttributeListsOf(n) : n \in 1..MaxAttributes}

RECURSIVE Flatten(_)
Flatten(seqs) == IF seqs = <<>> THEN <<>> ELSE Head(seqs) \o Flatten(Tail(seqs))

\* What lastAttributeNameRegex captures at the end of the literal chunk before
\* each interpolation of an attribute: the attribute's name before the first,
\* nothing before the others (the chunk holds no `=`).
attributeStrings(attr) ==
  [k \in DOMAIN attr.expressions |-> IF k = 1 THEN attr.name ELSE UndefinedNode]

\* parse5's attribute: the value of an attribute written without one is ''.
parseAttribute(attr) ==
  HtmlAttr(attr.name, IF attr.bare THEN <<"">> ELSE attr.literals)

\* html(<input attrs>text): template.head and the spans' literals and
\* expressions, and what parse5.parseFragment gives for strings.join(marker).
\* <input> is a void element, so the text is its sibling.
InputElementTemplate(attrs, textExpressions) ==
  LitHtml(Flatten([j \in DOMAIN attrs |-> attributeStrings(attrs[j])])
            \o [k \in 1..(Len(textExpressions) + 1) |-> UndefinedNode],
          Flatten([j \in DOMAIN attrs |-> attrs[j].expressions]) \o textExpressions,
          <<HtmlElement("input", [j \in DOMAIN attrs |-> parseAttribute(attrs[j])],
                        <<>>, FALSE)>>
            \o (IF textExpressions = <<>> THEN <<>>
                ELSE <<HtmlText([k \in 1..(Len(textExpressions) + 1) |-> ""])>>))

\* A converter at the body of /** @soyCompatible */ (a) => html(<input ...>...)
\* in simple.ts, the traversal of the fragment not yet begun.
InitAttributes ==
  /\ litTemplateDeclarations = {}
  /\ runs = 1
  /\ pc = "fragment"
  /\ sourceFile = 1
  /\ diagnostics = <<>>
  /\ commands = <<Namespace(soyNamespace(sourceFiles[1].localPath))>>
  /\ position = [node |-> 1, declaration |-> 1]
  /\ pending = <<>>
  /\ \E attrs \in AttributeLists,
        textExpressions \in {<<>>, <<ParameterReference("t", "a")>>} :
       task = [kind |-> "fragment", attrs |-> attrs,
               node |-> InputElementTemplate(attrs, textExpressions),
               attr |-> 0,
               st |-> Traversal(<< <<>> >>, <<1>>, 1, <<>>, <<>>, FALSE)]
  /\ content = NotRead
  /\ results = <<>>

AttributeScope == TemplateScope(<<FunctionFrame("t")>>, NoElement)

\* pre, at an element that is no known component, up to its first attribute
EnterElement ==
  /\ pc = "fragment"
  /\ pc' = "attributes"
  /\ task' = [task EXCEPT
                !.st = Push(@, <<RawText("<" \o task.node.fragment[1].tagName)>>),
                !.attr = 1]
  /\ UNCHANGED <<litTemplateDeclarations, runs, sourceFile, diagnostics, commands,
                 position, pending, content, results>>

\* One turn of `for (let {name, value} of node.attrs)`.
ConvertAttribute ==
  /\ pc = "attributes"
  /\ task.attr <= Len(task.node.fragment[1].attrs)
  /\ UNCHANGED litTemplateDeclarations
  /\ LET next(st) ==
           IF st.t THEN Throw(st.d)
           ELSE /\ task' = [task EXCEPT !.st = st, !.attr = @ + 1]
                /\ UNCHANGED <<runs, pc, sourceFile, diagnostics, commands,
                               position, pending, content, results>>
     IN next(convertAttribute(task.node.fragment[1].attrs[task.attr],
                              task.node.fragment[1], task.st, task.node,
                              AttributeScope, Env(litTemplateDeclarations)))

\* The end of pre at the element, post, the nodes after the element, and the
\* return of convertLitTaggedTemplateExpression into the template of t.
LeaveElement ==
  /\ pc = "attributes"
  /\ task.attr > Len(task.node.fragment[1].attrs)
  /\ UNCHANGED litTemplateDeclarations
  /\ LET return(st) ==
           IF st.t THEN Throw(st.d)
           ELSE /\ pc' = "done"
                /\ diagnostics' = diagnostics \o st.d
                /\ commands' = Append(commands,
                     Template("t", resolveAll(st.arrays, st.arrays[st.commandStack[1]])))
                /\ task' = [task EXCEPT !.st = st]
                /\ UNCHANGED <<runs, sourceFile, position, pending, content, results>>
     IN return(visitAll(Tail(task.node.fragment),
                        post(task.node.fragment[1],
                             Push(task.st, <<RawText(">")>>),
                             Env(litTemplateDeclarations)),
                        task.node, AttributeScope, Env(litTemplateDeclarations)))

NextAttributes == EnterElement \/ ConvertAttribute \/ LeaveElement \/ ReadContent

SpecAttributes == InitAttributes /\ [][NextAttributes]_vars


\* The attribute the loop is at, and what its turn pushes and reports.  The
\* diagnostics of a traversal are kept in task.st.d until it returns.
AtAttribute == pc = "attributes" /\ task.attr <= Len(task.attrs)
CurrentAttribute == task.attrs[task.attr]
pushed ==
  SubSeq(task'.st.arrays[1], Len(task.st.arrays[1]) + 1, Len(task'.st.arrays[1]))
reported == SubSeq(task'.st.d, Len(task.st.d) + 1, Len(task'.st.d))
converted(expression) ==
  convertExpression(expression, AttributeScope, Env(litTemplateDeclarations)).e

isBooleanBinding(attr) ==
  /\ attr.name.first = "."
  /\ attr.expressions /= <<>>
  /\ getReflectedAttribute(attr.name.rest, "input") /= UndefinedNode
  /\ getReflectedAttribute(attr.name.rest, "input").isBoolean

\* C13: the turn of a property binding whose reflection is boolean and whose
\* value holds an interpolation pushes, when the value is one interpolation
\* and nothing else, a blank and an if command (condition: the conversion of
\* that interpolation; true branch: the attribute's name; false branch: empty)
\* and reports nothing; for any other value it pushes nothing and reports once.
C13_BooleanBinding ==
  [][(AtAttribute /\ isBooleanBinding(CurrentAttribute)) =>
       IF /\ Len(CurrentAttribute.expressions) = 1
          /\ \A i \in DOMAIN CurrentAttribute.literals :
               CurrentAttribute.literals[i] = ""
       THEN /\ pushed =
                 <<RawText(" "),
                   IfCommand(converted(CurrentAttribute.expressions[1]),
                     <<RawText(getReflectedAttribute(CurrentAttribute.name.rest,
                                                     "input").name)>>,
                     <<>>)>>
            /\ reported = <<>>
       ELSE /\ pushed = <<>>
            /\ reported = <<"boolean attribute "
                            \o getReflectedAttribute(CurrentAttribute.name.rest,
                                                     "input").name
                            \o " must only contain a single expression.">>]_vars


isEventBinding(attr) == attr.name.first = "@" /\ attr.expressions /= <<>>
isMemberOfThis(node) ==
  /\ node.k = "PropertyAccessExpression"
  /\ node.expression.k = "ThisKeyword"
  /\ node.member /= UndefinedNode

\* C14: the turn of an event binding @event whose bound expression is
\* this.member, the access having a symbol, pushes the text
\*  jsaction="event:{xid('member')}" and nothing else; for any other bound
\* expression it reports once and pushes nothing (an error marker neither).
C14_EventBinding ==
  [][(AtAttribute /\ isEventBinding(CurrentAttribute)) =>
       IF isMemberOfThis(CurrentAttribute.expressions[1])
       THEN pushed = <<RawText(" jsaction=\"" \o CurrentAttribute.name.rest \o ":{xid('"
                               \o CurrentAttribute.expressions[1].member.name
                               \o "')}\"")>>
       ELSE pushed = <<>> /\ Len(reported) = 1]_vars


\* The text of an attribute without interpolations as the template has it.
written(attr) ==
  " " \o attr.name.first \o attr.name.rest
  \o (IF attr.bare THEN "" ELSE "=\"" \o attr.literals[1] \o "\"")

isPlain(attr) == attr.name.first \notin {".", "@", "?"} /\ attr.expressions = <<>>

\* C15: the turn of an attribute with none of the prefixes . @ ? and without
\* interpolations pushes the attribute as it is written, an attribute written
\* without a value without one, and reports nothing.
C15_PlainAttributeVerbatim ==
  [][(AtAttribute /\ isPlain(CurrentAttribute)) =>
       /\ pushed = <<RawText(written(CurrentAttribute))>>
       /\ reported = <<>>]_vars


(***************************************************************************)
(* Looking up the reflected attribute of a property                        *)
(***************************************************************************)
PropertyNames ==
  {"value", "checked", "disabled", "indeterminate", "className", "id", "blah",
   "class", ""}
TagNames == {"input", "option", "div", "*", "select", "textarea", "my-element"}

\* A caller about to look up one property of one tag.
InitReflection ==
  /\ litTemplateDeclarations = {}
  /\ runs = 1
  /\ pc = "lookup"
  /\ sourceFile = 1
  /\ diagnostics = <<>>
  /\ commands = <<>>
  /\ position = [node |-> 1, declaration |-> 1]
  /\ pending = <<>>
  /\ \E propertyName \in PropertyNames, tagName \in TagNames :
       task = [kind |-> "lookup", propertyName |-> propertyName,
               tagName |-> tagName, reflectedAttribute |-> UndefinedNode]
  /\ content = NotRead
  /\ results = <<>>

GetReflectedAttribute ==
  /\ pc = "lookup"
  /\ pc' = "looked"
  /\ task' = [task EXCEPT !.reflectedAttribute =
                getReflectedAttribute(task.propertyName, task.tagName)]
  /\ UNCHANGED <<litTemplateDeclarations, runs, sourceFile, diagnostics, commands,
                 position, pending, content, results>>

NextReflection == GetReflectedAttribute

SpecReflection == InitReflection /\ [][NextReflection]_vars

\* The reflections of propertyName that the source table lists under a tag.
listedUnder(tagName, propertyName) ==
  {r \in UNION {Range(reflectedAttributesSource[i].reflections) :
                  i \in {i \in DOMAIN reflectedAttributesSource :
                           tagName \in Range(reflectedAttributesSource[i].tagNames)}} :
     r.propertyName = propertyName}
describes(result, reflections) ==
  \E r \in reflections :
    result = [name |-> r.attributeName, isBoolean |-> r.isBoolean]

\* C16: the lookup of a property for a tag gives the entry the table lists for
\* the property under that tag; when there is none, the entry listed under *;
\* when there is none either, undefined -- for the tags the table does not
\* know as for the others.
C16_TagThenWildcard ==
  pc = "looked" =>
    IF listedUnder(task.tagName, task.propertyName) /= {}
    THEN describes(task.reflectedAttribute,
                   listedUnder(task.tagName, task.propertyName))
    ELSE IF listedUnder("*", task.propertyName) /= {}
    THEN describes(task.reflectedAttribute, listedUnder("*", task.propertyName))
    ELSE task.reflectedAttribute = UndefinedNode

C16_WildcardForUnknownTag ==
  /\ pc = "looked"
  /\ task.tagName = "my-element"
  /\ task.propertyName = "className"
  /\ task.reflectedAttribute = [name |-> "class", isBoolean |-> FALSE]


(***************************************************************************)
(* The Soy type of a declaration                                           *)
(***************************************************************************)
\* Types that are no arrays: string, number, boolean, null | undefined,
\* symbol, an object literal type, never (assignable to every shape) and
\* string[] | number[] (assignable to the array shape, but a union).
LeafTypes ==
  {Types.string, Types.number, Types.boolean,
   TsType({"nullish"}, {"nullish"}, FALSE, FALSE, <<>>),
   Types.symbol,
   TsType({}, {}, TRUE, FALSE, <<>>),
   TsType({"boolean", "number", "string", "nullish", "array"}, {}, FALSE, FALSE, <<>>),
   Types.arrayUnion}
\* A type reference assignable to the array shape: an array (one type argument),
\* a tuple (one per element), a reference without type arguments.
ArrayReference(args) == TsType({"array"}, {"array"}, TRUE, TRUE, args)

MaxTypeDepth == 2
RECURSIVE TypesOfDepth(_)
TypesOfDepth(n) ==
  IF n = 0 THEN LeafTypes
  ELSE TypesOfDepth(n - 1)
       \cup {ArrayReference(<<>>)}
       \cup {ArrayReference(<<t>>) : t \in TypesOfDepth(n - 1)}
       \cup {ArrayReference(<<t, u>>) : t \in {Types.string},
                                        u \in {Types.string, Types.number}}

\* A converter about to map the type of the parameter a of a function.
InitTypes ==
  /\ litTemplateDeclarations = {}
  /\ runs = 1
  /\ pc = "type"
  /\ sourceFile = 1
  /\ diagnostics = <<>>
  /\ commands = <<>>
  /\ position = [node |-> 1, declaration |-> 1]
  /\ pending = <<>>
  /\ \E symbol \in BOOLEAN, type \in TypesOfDepth(MaxTypeDepth) :
       task = [kind |-> "type", node |-> TsParameter("a", TRUE, symbol, type),
               soyType |-> Undefined]
  /\ content = NotRead
  /\ results = <<>>

GetSoyTypeOfNode ==
  /\ pc = "type"
  /\ UNCHANGED litTemplateDeclarations
  /\ LET return(soyType) ==
           IF soyType.t THEN Throw(soyType.d)
           ELSE /\ pc' = "typed"
                /\ diagnostics' = diagnostics \o soyType.d
                /\ task' = [task EXCEPT !.soyType = soyType.e]
                /\ UNCHANGED <<runs, sourceFile, commands, position, pending,
                               content, results>>
     IN return(getSoyTypeOfNode(task.node))

NextTypes == GetSoyTypeOfNode

SpecTypes == InitTypes /\ [][NextTypes]_vars

\* The names T ::= bool | number | string | null | list | list<T> with at most
\* n brackets.
RECURSIVE TypeNames(_)
TypeNames(n) ==
  IF n = 0 THEN {"bool", "number", "string", "null", "list"}
  ELSE TypeNames(n - 1) \cup {"list<" \o name \o ">" : name \in TypeNames(n - 1)}

\* C17: the type of a declaration is mapped to undefined, with a diagnostic, or
\* to a name of T ::= bool | number | string | null | list | list<T>, without
\* one; a type assignable to the array shape that has not exactly one type
\* argument is mapped to list.
C17_MappedTypeName ==
  pc = "typed" =>
    /\ \/ task.soyType = Undefined /\ diagnostics = <<"unknown type">>
       \/ task.soyType \in TypeNames(MaxTypeDepth) /\ diagnostics = <<>>
    /\ (/\ task.node.hasSymbol
        /\ task.node.type.from = {"array"}
        /\ Len(task.node.type.args) /= 1) => task.soyType = "list"


\* The number of interpolations in the attributes before the j-th.
markersBefore(j) == Len(Flatten([i \in 1..(j - 1) |-> task.attrs[i].expressions]))

\* C18: at each turn of the attribute loop as many parts are recorded as
\* interpolations stand before the attribute, so that the next interpolation
\* looked up is the attribute's own; and when the traversal has returned, as
\* many as the template has interpolations.
C18_PartsFollowMarkers ==
  /\ pc = "attributes" => Len(task.st.partTypes) = markersBefore(task.attr)
  /\ (pc = "done" /\ task.kind = "fragment") =>
       Len(task.st.partTypes) = Len(task.node.expressions)


(***************************************************************************)
(* Known components in a template                                          *)
(***************************************************************************)
\* Child nodes up to MaxNesting elements deep: nothing, one element, or one
\* element and a <p></p> after it; the elements are the two known components
\* and p.
MaxNesting == 3
RECURSIVE ChildNodes(_)
ChildNodes(n) ==
  IF n = 0 THEN {<<>>}
  ELSE LET elements == {HtmlElement(tagName, <<>>, childNodes, TRUE) :
                          tagName \in {"outer-element", "inner-element", "p"},
                          childNodes \in ChildNodes(n - 1)}
       IN {<<>>} \cup {<<e>> : e \in elements}
          \cup {<<e, HtmlElement("p", <<>>, <<>>, TRUE)>> : e \in elements}

components == CHOOSE f \in DOMAIN sourceFiles : sourceFiles[f].fileName = "components.ts"

\* A converter at the body of /** @soyCompatible */ () => html(...) in
\* components.ts, the template being one of the fragments above.
InitComponents ==
  /\ litTemplateDeclarations = {}
  /\ runs = 1
  /\ pc = "body"
  /\ sourceFile = components
  /\ diagnostics = <<>>
  /\ commands = <<Namespace(soyNamespace(sourceFiles[components].localPath))>>
  /\ position = [node |-> 1, declaration |-> 1]
  /\ pending = <<>>
  /\ \E fragment \in ChildNodes(MaxNesting) :
       task = [kind |-> "body", node |-> LitHtml(<<UndefinedNode>>, <<>>, fragment)]
  /\ content = NotRead
  /\ results = <<>>

NextComponents == ConvertBody \/ ReadContent

SpecComponents == InitComponents /\ [][NextComponents]_vars

\* The commands of a list of elements without attributes when every known
\* component holds, in its children block, what stands inside it.
RECURSIVE nested(_)
nested(nodes) ==
  IF nodes = <<>> THEN <<>>
  ELSE (IF Head(nodes).tagName \in DOMAIN DefinedElements
        THEN <<CallCommand(DefinedElements[Head(nodes).tagName],
                 <<CallParameter("children", Block(nested(Head(nodes).childNodes)),
                                 "html")>>)>>
        ELSE <<RawText("<" \o Head(nodes).tagName), RawText(">")>>
             \o nested(Head(nodes).childNodes)
             \o <<RawText("</" \o Head(nodes).tagName \o ">")>>)
       \o nested(Tail(nodes))

\* C19: in the commands returned for a template, the markup inside a known
\* component is in that component's children block and the markup after it in
\* the list the component's call is in, at every depth.
C19_TargetRestored ==
  (pc = "done" /\ sourceFile = components /\ task.kind = "body") =>
    commands[2].commands = nested(task.node.fragment)


(***************************************************************************)
(* Identifiers and the scope chain                                         *)
(***************************************************************************)
\* Declarations named item: a parameter of the template function t, of the
\* arrow function passed to map in it, of a function that is not around the
\* identifier; a variable of t's body; an element of a binding pattern that
\* is a parameter of t.
ItemDeclarations ==
  {Declaration("Parameter", f, "item") : f \in {"t", "mapper", "other"}}
  \cup {Declaration("VariableDeclaration", "t.body", "item"),
        Declaration("BindingElement", "t", "item")}
\* An identifier item with one declaration, with two, or without a symbol.
ItemIdentifiers ==
  {TsIdentifier("item", d, n) : d \in ItemDeclarations, n \in {1, 2}}
  \cup {TsIdentifier("item", UndefinedNode, 0)}
Frames ==
  {FunctionFrame("t"), FunctionFrame("mapper"), SetFrame({}),
   SetFrame({Declaration("VariableDeclaration", "t.body", "item")})}
MaxFrames == 2
RECURSIVE ScopeChains(_)
ScopeChains(n) ==
  IF n = 0 THEN {<<>>}
  ELSE ScopeChains(n - 1)
       \cup {<<s>> \o scopes : s \in Frames, scopes \in ScopeChains(n - 1)}

\* A converter about to ask whether an identifier is in a scope.
InitScope ==
  /\ litTemplateDeclarations = {}
  /\ runs = 1
  /\ pc = "scope"
  /\ sourceFile = 1
  /\ diagnostics = <<>>
  /\ commands = <<>>
  /\ position = [node |-> 1, declaration |-> 1]
  /\ pending = <<>>
  /\ \E node \in ItemIdentifiers, scopes \in ScopeChains(MaxFrames) :
       task = [kind |-> "scope", node |-> node,
               scope |-> TemplateScope(scopes, NoElement), inScope |-> FALSE]
  /\ content = NotRead
  /\ results = <<>>

IsInScope ==
  /\ pc = "scope"
  /\ pc' = "scoped"
  /\ LET return(r) ==
           /\ task' = [task EXCEPT !.inScope = r.e]
           /\ diagnostics' = diagnostics \o r.d
     IN return(isInScope(task.node, task.scope))
  /\ UNCHANGED <<litTemplateDeclarations, runs, sourceFile, commands, position,
                 pending, content, results>>

NextScope == IsInScope

SpecScope == InitScope /\ [][NextScope]_vars

\* A frame matches an identifier: a function when the identifier's (first)
\* declaration is a parameter whose parent is that function, a set when it
\* holds that declaration.
matches(s, node) ==
  /\ node.n > 0
  /\ IF s.set THEN node.decl \in s.decls
     ELSE node.decl.dk = "Parameter" /\ node.decl.parent = s.f

\* C20: an identifier is in scope exactly when a frame of the chain matches
\* it; a parameter of a function that is no frame of the chain never is.
C20_InScopeIffFrameMatches ==
  pc = "scoped" =>
    (task.inScope <=>
       \E i \in DOMAIN task.scope.scopes : matches(task.scope.scopes[i], task.node))

\* Inside the body of the arrow function passed to map, item is the arrow
\* function's parameter and in scope: the chain is <<mapper, t>>.
C20_LoopVariableInScope ==
  /\ pc = "scoped"
  /\ task.scope.scopes = <<FunctionFrame("mapper"), FunctionFrame("t")>>
  /\ task.node = TsIdentifier("item", Declaration("Parameter", "mapper", "item"), 1)
  /\ task.inScope


(***************************************************************************)
(* The block body of a template function                                   *)
(***************************************************************************)
\* /** @soyCompatible */ export const t = (items: string[], x: string) => {
\*   const y = ...; const z = ...; return html(${...}${...});
\* } in simple.ts, in place of its t.
X == ParameterReference("t", "x")
Items == ParameterReference("t", "items")
One == TsLiteral("NumericLiteral", "1")
\* A reference to the const `name` of the body: the checker has a symbol for it
\* when the body declares it.
Local(name, declared) ==
  IF name \in declared
  THEN TsIdentifier(name, Declaration("VariableDeclaration", "t.body", name), 1)
  ELSE TsIdentifier(name, UndefinedNode, 0)
Method(name) == TsMember("MethodSignature", name, <<>>, UndefinedNode, UndefinedNode)

\* The initializers of the first const: one of each supported kind.
Initializers ==
  {One, X, TsBinary(X, "+", One), TsParen(X), TsConditional(X, One, X),
   TsPrefixUnary("!", X),
   TsCall(TsPropertyAccess(X, "includes", Types.string, Method("includes")),
          <<TsLiteral("StringLiteral", "'a'")>>, "String.includes"),
   TsPropertyAccess(Items, "length", Types.stringArray, Method("length")),
   TsObjectLiteral(<<TsPropertyAssignment("a", X)>>)}

BindingNames == <<"y", "z", "w", "v">>
MaxBindings == 2
\* const y = e; const z = x or y; ...: the lists of n initializers
RECURSIVE BindingLists(_)
BindingLists(n) ==
  IF n = 0 THEN {<<>>}
  ELSE IF n = 1 THEN {<<e>> : e \in Initializers}
  ELSE {Append(l, e) : l \in BindingLists(n - 1),
                       e \in {X, Local(BindingNames[n - 1], {BindingNames[n - 1]})}}

\* items.map((parameters) => html(${e1}...${en}))
MapOver(parameters, expressions) ==
  TsCall(TsPropertyAccess(Items, "map", Types.stringArray, Method("map")),
         <<TsArrowFunction("t.map",
             [i \in DOMAIN parameters |->
                TsParameter(parameters[i], FALSE, TRUE, Types.string)],
             TextTemplate(expressions), FALSE)>>,
         "Array.map")
MapParameter(name) == ParameterReference("t.map", name)

\* The first interpolation of the returned template.
Interpolations(declared) ==
  {X, Local("y", declared),
   \* items.map((item) => html(${item}${x}${y}))
   MapOver(<<"item">>, <<MapParameter("item"), X, Local("y", declared)>>),
   \* items.map((item, index) => html(${item}${index}))
   MapOver(<<"item", "index">>, <<MapParameter("item"), MapParameter("index")>>),
   \* items.map((x) => html(${x}))
   MapOver(<<"x">>, <<MapParameter("x")>>),
   \* x ? html(${x}) : html(no)
   TsConditional(X, TextTemplate(<<X>>),
                 LitHtml(<<UndefinedNode>>, <<>>, <<HtmlText(<<"no">>)>>)),
   \* x === x,  x.foo with a receiver type the checker does not know,  f()
   TsBinary(X, "===", X),
   TsPropertyAccess(X, "foo", UndefinedNode, UndefinedNode),
   TsCall(TsIdentifier("f", Declaration("FunctionDeclaration", "simple.ts", "f"), 1),
          <<>>, "f"),
   \* svg(...), a tag that is not lit-html's html
   TsTaggedTemplate("svg", <<UndefinedNode>>, <<>>, <<HtmlText(<<"a">>)>>)}

BlockBody(initializers, first, second) ==
  TsBlock("t.body",
    [i \in DOMAIN initializers |->
       TsVariableStatement(TRUE,
         <<TsVariableDeclaration(BindingNames[i], initializers[i])>>)]
    \o <<TsReturn(TextTemplate(<<first, second>>))>>)

declaredBy(initializers) == {BindingNames[i] : i \in DOMAIN initializers}

\* A converter that has registered t, converted its parameters and begins the
\* loop over the statements of its body.
InitBlock ==
  /\ litTemplateDeclarations = {getVariableDeclaration("simple.ts", "t")}
  /\ runs = 1
  /\ pc = "block"
  /\ sourceFile = 1
  /\ diagnostics = <<>>
  /\ commands = <<Namespace(soyNamespace(sourceFiles[1].localPath))>>
  /\ position = [node |-> 2, declaration |-> 1]
  /\ pending = <<>>
  /\ \E n \in 0..MaxBindings : \E initializers \in BindingLists(n) :
       \E first \in Interpolations(declaredBy(initializers)),
          second \in {X, Local("y", declaredBy(initializers))} :
         task = [kind |-> "function", name |-> "t",
                 prefix |-> <<TemplateParameter("items", "list<string>"),
                              TemplateParameter("x", "string")>>,
                 block |-> BlockBody(initializers, first, second),
                 next |-> 1,
                 frame |-> BodyFrame(<<>>,
                             TemplateScope(<<FunctionFrame("t")>>, NoElement),
                             FALSE, <<>>, FALSE)]
  /\ content = NotRead
  /\ results = <<>>

NextBlock ==
  \/ ConvertStatement
  \/ FinishBlock
  \/ SkipNode
  \/ ReturnFiles
  \/ ReadContent

SpecBlock == InitBlock /\ [][NextBlock]_vars


\* The frames that the const declarations of a statement put before a scope:
\* one per declaration, the last declaration's first.
RECURSIVE framesOf(_, _)
framesOf(declarations, block) ==
  IF declarations = <<>> THEN <<>>
  ELSE framesOf(Tail(declarations), block)
       \o <<SetFrame({Declaration("VariableDeclaration", block,
                                  Head(declarations).name)})>>

\* C21: a const statement of a block leaves a scope whose frames are the new
\* frames followed by the frames the scope had; every other statement, a return
\* with loops in its template among them, leaves the frames and the element of
\* the scope as they were.
C21_FramesPrepended ==
  [][(InBlock /\ pc' = "block") =>
       /\ task'.frame.scope.element = task.frame.scope.element
       /\ task'.frame.scope.scopes =
            (IF CurrentStatement.k = "VariableStatement" /\ CurrentStatement.isConst
             THEN framesOf(CurrentStatement.declarations, task.block.id)
             ELSE <<>>)
            \o task.frame.scope.scopes]_vars

\* After const y, const z and a return whose template loops over items and
\* then prints y: the frames are z's, y's and the function, and y was in scope
\* after the loop.
C21_FramesAfterLoop ==
  /\ pc = "block"
  /\ task.kind = "function"
  /\ task.next > Len(task.block.statements)
  /\ task.frame.scope.scopes =
       <<SetFrame({Declaration("VariableDeclaration", "t.body", "z")}),
         SetFrame({Declaration("VariableDeclaration", "t.body", "y")}),
         FunctionFrame("t")>>
  /\ \E i \in DOMAIN task.frame.commands :
       /\ task.frame.commands[i].c = "ForCommand"
       /\ \E j \in (i + 1)..Len(task.frame.commands) :
            task.frame.commands[j] = SoyPrint(Identifier("y"))


\* C22: whenever the conversion of a return statement's template records a
\* diagnostic, the commands of the template hold an error marker, and the loop
\* over the statements goes on.
C22_DiagnosticHasMarker ==
  [][(InBlock /\ CurrentStatement.k = "ReturnStatement"
        /\ Len(diagnostics') > Len(diagnostics)) =>
       /\ pc' = "block"
       /\ anyError(task'.frame.commands)]_vars

\* C23: a const statement whose initializer converts without a diagnostic adds
\* one let command after the commands before it, and that command serializes
\* as {let $name: <expr> /}.
C23_LetValueForm ==
  [][(InBlock /\ CurrentStatement.k = "VariableStatement"
        /\ CurrentStatement.isConst
        /\ pc' = "block" /\ diagnostics' = diagnostics) =>
       /\ Len(task'.frame.commands) = Len(task.frame.commands) + 1
       /\ SubSeq(task'.frame.commands, 1, Len(task.frame.commands))
            = task.frame.commands
       /\ task'.frame.commands[Len(task'.frame.commands)].c = "LetCommand"
       /\ task'.frame.commands[Len(task'.frame.commands)].identifier
            = CurrentStatement.declarations[1].name
       /\ emit(task'.frame.commands[Len(task'.frame.commands)])
            = Then(Emitted("\n{let $" \o CurrentStatement.declarations[1].name
                           \o ": "),
                   Then(emit(task'.frame.commands[Len(task'.frame.commands)].value),
                        Emitted(" /}\n")))]_vars

\* C30: a converted !e serializes as not, a space, and the operand.
C30_NotThenOperand ==
  \A i \in DOMAIN task.frame.commands :
    (/\ pc = "block"
     /\ task.frame.commands[i].c = "LetCommand"
     /\ task.frame.commands[i].value.c = "UnaryOperator"
     /\ task.frame.commands[i].value.operator = "not") =>
      emit(task.frame.commands[i].value)
        = Then(Emitted("not "), emit(task.frame.commands[i].value.child))


(***************************************************************************)
(* The reactive properties of a class and of its parents                   *)
(***************************************************************************)
PropertyDecorator == TsDecorator(TRUE, "property", <<>>)

\* The members a class may declare under a name:
\*   @property() a;   a;   @foo @property() a;   @foo() @property() a;
\*   @property() a() {}
MembersNamed(name) ==
  {TsMember("PropertyDeclaration", name, <<PropertyDecorator>>, Types.string,
            UndefinedNode),
   TsMember("PropertyDeclaration", name, <<>>, Types.string, UndefinedNode),
   TsMember("PropertyDeclaration", name,
            <<TsDecorator(FALSE, "foo", <<>>), PropertyDecorator>>, Types.string,
            UndefinedNode),
   TsMember("PropertyDeclaration", name,
            <<TsDecorator(TRUE, "foo", <<>>), PropertyDecorator>>, Types.string,
            UndefinedNode),
   TsMember("MethodDeclaration", name, <<PropertyDecorator>>, UndefinedNode,
            UndefinedNode)}

MemberNames == <<"a", "b", "c", "d">>
MaxMembers == 2
MaxClasses == 2
ClassNames == <<"MyElement", "MyParent", "MyGrandparent", "MyAncestor">>

RECURSIVE MemberLists(_)
MemberLists(n) ==
  IF n = 0 THEN {<<>>}
  ELSE {Append(members, m) :
          members \in MemberLists(n - 1), m \in MembersNamed(MemberNames[n])}

AllMemberLists == UNION {MemberLists(n) : n \in 0..MaxMembers}

\* The class at place i of a chain of n classes, with its parents: the first
\* is the element's class, which has the render method; the last extends
\* LitElement, or nothing.
RECURSIVE ClassChains(_, _)
ClassChains(i, n) ==
  IF i = n
  THEN {TsClass(i = 1, ClassNames[i], <<CustomElementDecorator>>,
                members \o (IF i = 1 THEN <<RenderHello(<<>>)>> ELSE <<>>),
                heritageClauses,
                IF heritageClauses THEN "LitElement" ELSE Undefined,
                UndefinedNode) :
          members \in AllMemberLists, heritageClauses \in BOOLEAN}
  ELSE {TsClass(i = 1, ClassNames[i], <<CustomElementDecorator>>,
                members \o (IF i = 1 THEN <<RenderHello(<<>>)>> ELSE <<>>),
                TRUE, ClassNames[i + 1], parent) :
          members \in AllMemberLists, parent \in ClassChains(i + 1, n)}

ElementFile == CHOOSE i \in DOMAIN sourceFiles : sourceFiles[i].fileName = "element.ts"

\* A converter of a file that imports property and customElement, at a class.
InitHeritage ==
  /\ litTemplateDeclarations = {}
  /\ runs = 1
  /\ pc = "heritage"
  /\ sourceFile = ElementFile
  /\ diagnostics = <<>>
  /\ commands = <<>>
  /\ position = [node |-> 1, declaration |-> 1]
  /\ pending = <<>>
  /\ \E n \in 1..MaxClasses : \E node \in ClassChains(1, n) :
       task = [kind |-> "heritage", node |-> node,
               properties |-> Ret(<<>>, <<>>),
               head |-> Ret(UndefinedNode, <<>>)]
  /\ content = NotRead
  /\ results = <<>>

\* const properties = this.getLitElementProperties(node)
GetLitElementProperties ==
  /\ pc = "heritage"
  /\ pc' = "collected"
  /\ task' = [task EXCEPT !.properties =
                getLitElementProperties(task.node, Env(litTemplateDeclarations))]
  /\ UNCHANGED <<litTemplateDeclarations, runs, sourceFile, diagnostics, commands,
                 position, pending, content, results>>

\* convertLitElement, up to the body of the render method
ConvertLitElementHead ==
  /\ pc = "collected"
  /\ pc' = "headed"
  /\ task' = [task EXCEPT !.head =
                convertLitElementHead(task.node, Env(litTemplateDeclarations))]
  /\ UNCHANGED <<litTemplateDeclarations, runs, sourceFile, diagnostics, commands,
                 position, pending, content, results>>

NextHeritage == GetLitElementProperties \/ ConvertLitElementHead

SpecHeritage == InitHeritage /\ [][NextHeritage]_vars

\* Whether one of the decorators of a member is a call of property.
decoratedWithProperty(member) ==
  \E i \in DOMAIN member.decorators :
    member.decorators[i].isCall /\ member.decorators[i].symbol = "property"

keepProperty(member) ==
  member.k = "PropertyDeclaration" /\ decoratedWithProperty(member)

\* The property declarations of a class with such a decorator, then those of
\* its parents, up to and without LitElement.
RECURSIVE decoratedProperties(_)
decoratedProperties(node) ==
  SelectSeq(node.members, keepProperty)
  \o (IF node.parent = UndefinedNode THEN <<>> ELSE decoratedProperties(node.parent))

\* C24: getLitElementProperties returns, for a chain of classes, the property
\* declarations that have a decorator calling property, the element's own
\* first, each class's in the order of its members.
C24_DecoratedPropertiesOfChain ==
  pc = "collected" =>
    /\ ~task.properties.t
    /\ task.properties.e = decoratedProperties(task.node)

\* The names of a sequence of parameters occur once each.
distinct(names) == \A i, j \in DOMAIN names : names[i] = names[j] => i = j

\* C29: no property name occurs twice among the parameters of the wrapper
\* template, the parameters it passes to the shadow template, or the
\* parameters of the shadow template.
C29_PropertyNamesOnce ==
  (pc = "headed" /\ ~task.head.t /\ task.head.e.wrapper /= UndefinedNode) =>
    /\ distinct(declaredParameters(task.head.e.wrapper.commands))
    /\ distinct(passedParameters(task.head.e.wrapper.commands,
                                 task.node.name \o "_shadow"))
    /\ distinct([i \in DOMAIN task.head.e.params |-> task.head.e.params[i].name])


(***************************************************************************)
(* Calls of template functions                                             *)
(***************************************************************************)
notRawText(command) == command.c /= "RawText"

\* C25: the conversion of a template function whose template's interpolations
\* are calls f() gives, for each call, a call command if the declaration of f
\* is in the registry once the function itself is registered, and otherwise a
\* printed error marker with the diagnostic "unsupported call".
C25_CallIffRegistered ==
  [][(/\ Visiting
      /\ sourceFiles[sourceFile].fileName = "calls.ts"
      /\ isLitTemplateFunctionDeclaration(CurrentNode)
      /\ pc' = "file") =>
       \A i \in DOMAIN CurrentNode.declarations[position.declaration]
                         .initializer.body.expressions :
         /\ Len(SelectSeq((commands' \o pending')[Len(commands' \o pending')].commands,
                          notRawText))
              = Len(CurrentNode.declarations[position.declaration]
                      .initializer.body.expressions)
         /\ IF CurrentNode.declarations[position.declaration]
                 .initializer.body.expressions[i].expression.decl
                 \in litTemplateDeclarations'
            THEN SelectSeq((commands' \o pending')[Len(commands' \o pending')].commands,
                           notRawText)[i]
                   = CallCommand(CurrentNode.declarations[position.declaration]
                                   .initializer.body.expressions[i].expression.name,
                                 <<>>)
            ELSE /\ SelectSeq((commands' \o pending')[Len(commands' \o pending')].commands,
                              notRawText)[i]
                      = SoyPrint(ErrorExpression)
                 /\ \E j \in (Len(diagnostics) + 1)..Len(diagnostics') :
                      diagnostics'[j] = "unsupported call"]_vars

\* A first run over the file leaves an error marker for a's call of b, which is
\* declared after a, and call commands for c's calls of b and of c itself; a
\* second run finds b in the registry and gives a a call command.
C25_LaterEarlierSelfAndLeftOver ==
  /\ pc = "done"
  /\ runs = 2
  /\ sourceFiles[sourceFile].fileName = "calls.ts"
  /\ Len(results) = 2
  /\ results[1].sourceFile = sourceFile
  /\ SelectSeq(results[1].outputAST.commands[2].commands, notRawText)
       = <<SoyPrint(ErrorExpression)>>
  /\ SelectSeq(results[1].outputAST.commands[4].commands, notRawText)
       = <<CallCommand("b", <<>>), CallCommand("c", <<>>)>>
  /\ SelectSeq(commands[2].commands, notRawText) = <<CallCommand("b", <<>>)>>


(***************************************************************************)
(* Grimlock.convertModule and the overlay of the language service host     *)
(***************************************************************************)
\* The paths and the source texts a caller passes to convertModule.  Of a
\* source: whether the program finds syntax errors in it, and the names of the
\* marked template functions it declares.
Paths == {"a.ts", "b.ts"}
ModuleSource(text, syntaxErrors, templates) ==
  [text |-> text, syntaxErrors |-> syntaxErrors, templates |-> templates]
ModuleSources ==
  {ModuleSource("s1", FALSE, {"t"}), ModuleSource("s2", FALSE, {"t", "u"}),
   ModuleSource("s3", TRUE, {})}
MaxCalls == 4

\* Number.prototype.toString of an integer
DecimalDigits == <<"0", "1", "2", "3", "4", "5", "6", "7", "8", "9">>
RECURSIVE toString(_)
toString(n) ==
  IF n < 0 THEN "-" \o toString(-n)
  ELSE IF n < 10 THEN DecimalDigits[n + 1]
  ELSE toString(n \div 10) \o DecimalDigits[(n % 10) + 1]

\* OverlayLanguageServiceHost.getScriptVersion
getScriptVersion(files, fileName) ==
  toString(IF fileName \notin DOMAIN files THEN -1 ELSE files[fileName].version)

\* OverlayLanguageServiceHost.getScriptFileNames
getScriptFileNames(files) == DOMAIN files

\* new Grimlock(packageRoot, generators): the host's overlay is empty.
InitOverlay ==
  /\ litTemplateDeclarations = {}
  /\ runs = 0
  /\ pc = "overlay"
  /\ sourceFile = 1
  /\ diagnostics = <<>>
  /\ commands = <<>>
  /\ position = [node |-> 1, declaration |-> 1]
  /\ pending = <<>>
  /\ task = [kind |-> "overlay", files |-> <<>>]
  /\ content = NotRead
  /\ results = <<>>

\* Grimlock.convertModule(fileName, source).  `results` keeps, for each call,
\* the path and the text presented to the language service and the version
\* the host reports for the path when the service builds its program; the
\* generators register the file's template functions and leave the overlay
\* alone.
ConvertModule(fileName, source) ==
  /\ pc \in {"overlay", "threw"}
  /\ runs < MaxCalls
  /\ runs' = runs + 1
  /\ LET existingFile == IF fileName \in DOMAIN task.files
                         THEN task.files[fileName] ELSE UndefinedNode
         version == IF existingFile = UndefinedNode THEN 0
                    ELSE existingFile.version + 1
         files == [name \in {fileName} |->
                     [version |-> version, source |-> source.text]]
     IN /\ task' = [task EXCEPT !.files = files]
        /\ results' = Append(results,
                        [fileName |-> fileName, source |-> source.text,
                         version |-> getScriptVersion(files, fileName)])
  /\ IF source.syntaxErrors
     THEN /\ pc' = "threw"
          /\ UNCHANGED litTemplateDeclarations
     ELSE /\ pc' = "overlay"
          /\ litTemplateDeclarations' = litTemplateDeclarations
               \cup {getVariableDeclaration(fileName, name) : name \in source.templates}
  /\ UNCHANGED <<sourceFile, diagnostics, commands, position, pending, content>>

NextOverlay == \E fileName \in Paths, source \in ModuleSources :
                 ConvertModule(fileName, source)

SpecOverlay == InitOverlay /\ [][NextOverlay]_vars

\* The calls before the last one that presented the same path, and after which
\* no other call but the last did.
lastPresented(calls) ==
  {i \in 1..(Len(calls) - 1) :
     /\ calls[i].fileName = calls[Len(calls)].fileName
     /\ \A j \in (i + 1)..(Len(calls) - 1) :
          calls[j].fileName /= calls[Len(calls)].fileName}

\* C26: after a call of convertModule the overlay holds the file of the call
\* and nothing else, and when the text differs from the text the path was last
\* presented with, the version reported differs from the version reported then.
C26_VersionChangesWithText ==
  [][results' /= results =>
       /\ getScriptFileNames(task'.files) = {results'[Len(results')].fileName}
       /\ task'.files[results'[Len(results')].fileName].source
            = results'[Len(results')].source
       /\ \A i \in lastPresented(results') :
            results'[i].source /= results'[Len(results')].source =>
              results'[i].version /= results'[Len(results')].version]_vars


(***************************************************************************)
(* The variables of an emitted template                                    *)
(***************************************************************************)
\* Whether every identifier of the commands names a variable bound where it
\* stands: one of `bound`, a template parameter or a let before it, or the
\* variable of a for command around it.
RECURSIVE boundIn(_, _), allBoundIn(_, _)
boundIn(node, bound) ==
  CASE node.c = "Identifier" -> node.value \in bound
    [] node.c \in {"Print", "UnaryOperator", "Paren"} -> boundIn(node.child, bound)
    [] node.c = "Block" -> allBoundIn(node.children, bound)
    [] node.c \in {"CallParameter", "LetCommand"} -> boundIn(node.value, bound)
    [] node.c = "CallCommand" -> allBoundIn(node.parameters, bound)
    [] node.c = "IfCommand" ->
         /\ boundIn(node.condition, bound)
         /\ allBoundIn(node.whenTrue, bound)
         /\ allBoundIn(node.whenFalse, bound)
    [] node.c = "ForCommand" ->
         /\ boundIn(node.expression, bound)
         /\ allBoundIn(node.body, bound \cup {node.identifier})
    [] node.c = "BinaryOperator" ->
         boundIn(node.left, bound) /\ boundIn(node.right, bound)
    [] node.c = "PropertyAccess" -> boundIn(node.receiver, bound)
    [] node.c = "Index" ->
         boundIn(node.receiver, bound) /\ boundIn(node.argument, bound)
    [] node.c = "CallExpression" ->
         \A i \in DOMAIN node.arguments : boundIn(node.arguments[i], bound)
    [] node.c = "Ternary" ->
         /\ boundIn(node.condition, bound)
         /\ boundIn(node.trueExpr, bound)
         /\ boundIn(node.falseExpr, bound)
    [] node.c = "Record" ->
         \A i \in DOMAIN node.entries : boundIn(node.entries[i][2], bound)
    [] OTHER -> TRUE
allBoundIn(nodes, bound) ==
  IF nodes = <<>> THEN TRUE
  ELSE /\ boundIn(Head(nodes), bound)
       /\ allBoundIn(Tail(nodes),
            IF Head(nodes).c = "TemplateParameter" THEN bound \cup {Head(nodes).name}
            ELSE IF Head(nodes).c = "LetCommand"
            THEN bound \cup {Head(nodes).identifier}
            ELSE bound)

\* C27: in an output produced without diagnostics, every identifier of every
\* template names a parameter of the template, a let before it or the variable
\* of a for command around it.
C27_IdentifiersBound ==
  (pc = "done" /\ diagnostics = <<>>) =>
    \A i \in DOMAIN commands :
      commands[i].c = "Template" => allBoundIn(commands[i].commands, {})


(***************************************************************************)
(* The attributes of a known component                                     *)
(***************************************************************************)
\* html(<outer-element attrs>childNodes</outer-element>): template.head and
\* the spans' literals and expressions, and parse5's fragment.
KnownElementTemplate(attrs, childNodes) ==
  LitHtml(Flatten([j \in DOMAIN attrs |-> attributeStrings(attrs[j])])
            \o <<UndefinedNode>>,
          Flatten([j \in DOMAIN attrs |-> attrs[j].expressions]),
          <<HtmlElement("outer-element",
                        [j \in DOMAIN attrs |-> parseAttribute(attrs[j])],
                        childNodes, TRUE)>>)

\* A converter at the body of /** @soyCompatible */ (a) => html(...) in
\* components.ts, the template being a known component with attributes.
InitKnownElement ==
  /\ litTemplateDeclarations = {}
  /\ runs = 1
  /\ pc = "body"
  /\ sourceFile = components
  /\ diagnostics = <<>>
  /\ commands = <<Namespace(soyNamespace(sourceFiles[components].localPath))>>
  /\ position = [node |-> 1, declaration |-> 1]
  /\ pending = <<>>
  /\ \E attrs \in AttributeLists, childNodes \in ChildNodes(1) :
       task = [kind |-> "body", node |-> KnownElementTemplate(attrs, childNodes)]
  /\ content = NotRead
  /\ results = <<>>

NextKnownElement == ConvertBody \/ ReadContent

SpecKnownElement == InitKnownElement /\ [][NextKnownElement]_vars

\* C28: the children block of the call of a known component holds the commands
\* of the element's child nodes, and nothing of its attributes.
C28_ChildrenOnly ==
  pc = "done" =>
    \A i \in DOMAIN commands[2].commands :
      (/\ commands[2].commands[i].c = "CallCommand"
       /\ commands[2].commands[i].templateName = DefinedElements["outer-element"]) =>
        commands[2].commands[i].parameters[1].value.children
          = nested(task.node.fragment[1].childNodes)
====
